---- MODULE Spec2Model ----
(***************************************************************************)
(* Session control plane of the mediasoup conference server:               *)
(* PeerManager (the peer registry and the producer -> transport index      *)
(* table), the signaling handlers of WebRTCServer and the RTP bridge of    *)
(* MediasoupService.  Every `await` of a handler is a point where other    *)
(* handlers run, so a handler is one action per stretch between awaits.    *)
(***************************************************************************)
EXTENDS Integers, Sequences, FiniteSets, TLC

\* Bounds of the model: sockets accepted, and requests made, in one behaviour.
MaxPeers == 3
MaxTransports == 2
MaxProducers == 2
MaxConsumers == 1
\* Bounds of the behaviours in which no socket disconnects (JoinSpec).
MaxJoinTransports == 3
MaxJoinProducers == 3
\* Bound of the behaviours with direct calls of PeerManager.removePeer (ApiSpec):
\* produce requests and consume requests (transports are bounded by
\* MaxTransports, so that a peer can consume another peer's producer).
MaxApiRequests == 1
\* Bound of the behaviours with resume requests (ResumeSpec): resume requests.
MaxResumes == 2

\* Program constants.
MaxPeerIndex == 1
RtpTransportsPerKind == 2

PeerIds == 1..MaxPeers
\* Handle ids are opaque: the handles a socket asks for are numbered within the
\* socket's own block of ids, in the order the socket asks for them.
TransportIds == 1..(MaxPeers * MaxJoinTransports)
ProducerIds == 1..(MaxPeers * MaxJoinProducers)
ConsumerIds == 1..(MaxPeers * MaxConsumers)
TransportIdsOf(socketId) ==
  ((socketId - 1) * MaxJoinTransports + 1)..(socketId * MaxJoinTransports)
ProducerIdsOf(socketId) ==
  ((socketId - 1) * MaxJoinProducers + 1)..(socketId * MaxJoinProducers)
ConsumerIdsOf(socketId) ==
  ((socketId - 1) * MaxConsumers + 1)..(socketId * MaxConsumers)
Kinds == {"audio", "video"}

VARIABLES
  peers,               \* PeerManager.peers: the keys of the Map, in insertion order
  transports,          \* Peer.transports of each socket id (empty when no entry)
  producers,           \* Peer.producers
  consumers,           \* Peer.consumers
  producerAssignments, \* PeerManager.producerAssignments: producerId -> transportIndex
  nConn,               \* sockets accepted so far; socket ids are 1..nConn
  connected,           \* sockets whose "disconnect" event has not fired
  engineTransports,    \* createWebRtcTransport calls and the handles they returned
  engineProducers,     \* produce requests and the handles transport.produce returned
  engineConsumers,     \* consume requests and the handles transport.consume returned,
                       \* with the resume requests that name them
  rtpConsumers,        \* consumers created on the plain RTP transports: <<producerId, index>>
  newProducerEmitted,  \* producer ids broadcast in a "new-producer" event
  removeCalls,         \* calls of PeerManager.removePeer made so far, per socket id
  addCalls,            \* calls of PeerManager.addPeer made so far, per socket id
  sent,                \* the events the last step emitted to sockets, in order
  process,             \* "constructed", "running", "workerDied" (exit is scheduled),
                       \* "exited" (process.exit without cleanup) or "stopped"
                       \* (process.exit after cleanup)
  ffmpeg,              \* FFmpegService.process: "null" (never spawned), "alive",
                       \* "closed" (it exited by itself) or "killed" (stop() killed it)
  spawns,              \* calls of spawn("ffmpeg") made so far
  rtpTransports,       \* the plain RTP transports that are open: <<kind, index>>
  teardown,            \* the calls WebRTCServer.cleanup has made, in order
  children,            \* the FFmpeg child processes spawned so far, in order: "alive",
                       \* "killed" (SIGTERM sent, "close" not yet emitted) or "exited"
  handle               \* FFmpegService.process: the index of a child, 0 for null

vars == <<peers, transports, producers, consumers, producerAssignments, nConn,
          connected, engineTransports, engineProducers, engineConsumers,
          rtpConsumers, newProducerEmitted, removeCalls, addCalls, sent, process,
          ffmpeg, spawns, rtpTransports, teardown, children, handle>>

registryVars == <<peers, transports, producers, consumers, producerAssignments>>
engineVars == <<engineTransports, engineProducers, engineConsumers, rtpConsumers>>
bridgeVars == <<ffmpeg, spawns, rtpTransports, teardown, children, handle>>

Range(s) == {s[i] : i \in DOMAIN s}

\* A request's record keeps what the requester sent and, in acks, the payloads
\* its acknowledgement callback was called with ("ok" or "error"), in order.  A
\* transport's record also keeps the connectWebRtcTransport requests that name
\* its id: the requesters waiting for transport.connect() and the replies given.
NoTransport == [owner |-> 0, state |-> "none", isSender |-> TRUE, acks |-> <<>>,
                connecting |-> <<>>, connectReplies |-> <<>>]
NoProducer == [owner |-> 0, tid |-> 0, kind |-> "none", stage |-> "none",
               handle |-> "none", idx |-> -1, acks |-> <<>>]
NoConsumer == [owner |-> 0, tid |-> 0, pid |-> 0, state |-> "none", paused |-> TRUE,
               resuming |-> <<>>, replies |-> <<>>, acks |-> <<>>]

\* MediasoupService.rtpTransports after initializeRtpTransports: two plain
\* transports for video and two for audio.
AllRtpTransports == Kinds \X (0..(RtpTransportsPerKind - 1))

Init ==
  /\ peers = <<>>
  /\ transports = [p \in PeerIds |-> {}]
  /\ producers = [p \in PeerIds |-> {}]
  /\ consumers = [p \in PeerIds |-> {}]
  /\ producerAssignments = <<>>
  /\ nConn = 0
  /\ connected = {}
  /\ engineTransports = [t \in TransportIds |-> NoTransport]
  /\ engineProducers = [x \in ProducerIds |-> NoProducer]
  /\ engineConsumers = [c \in ConsumerIds |-> NoConsumer]
  /\ rtpConsumers = {}
  /\ newProducerEmitted = {}
  /\ removeCalls = [p \in PeerIds |-> 0]
  /\ addCalls = [p \in PeerIds |-> 0]
  /\ sent = <<>>
  /\ process = "running"
  /\ ffmpeg = "alive"
  /\ spawns = 1
  /\ rtpTransports = AllRtpTransports
  /\ teardown = <<>>
  /\ children = <<"alive">>
  /\ handle = 1

----------------------------------------------------------------------------
\* PeerManager

\* Array.from(this.peers.keys()).indexOf(socketId), 0-based, -1 when absent.
indexOf(socketId) ==
  IF socketId \in Range(peers)
    THEN (CHOOSE i \in DOMAIN peers : peers[i] = socketId) - 1
    ELSE -1

\* Mutant: the index counted from 1.
getProducerTransportIndex_oneBased(socketId) ==
  LET peerIndex == indexOf(socketId)
  IN IF peerIndex = -1 \/ peerIndex + 1 > MaxPeerIndex THEN -1 ELSE peerIndex + 1

getProducerTransportIndex(socketId) ==
  LET peerIndex == indexOf(socketId)
  IN IF peerIndex = -1 \/ peerIndex > MaxPeerIndex THEN -1 ELSE peerIndex

\* Mutant: the new peer is put first.
addPeer_front(socketId) ==
  /\ peers' = IF socketId \in Range(peers) THEN peers ELSE <<socketId>> \o peers
  /\ transports' = [transports EXCEPT ![socketId] = {}]
  /\ producers' = [producers EXCEPT ![socketId] = {}]
  /\ consumers' = [consumers EXCEPT ![socketId] = {}]

\* Map.set: a new key goes last, an existing key keeps its place; the value is
\* a Peer with three empty maps.
addPeer(socketId) ==
  /\ peers' = IF socketId \in Range(peers) THEN peers ELSE Append(peers, socketId)
  /\ transports' = [transports EXCEPT ![socketId] = {}]
  /\ producers' = [producers EXCEPT ![socketId] = {}]
  /\ consumers' = [consumers EXCEPT ![socketId] = {}]

\* Mutant: the transport is looked up in the maps of all the peers.
getTransport_anyPeer(socketId, transportId) ==
  \E p \in Range(peers) : transportId \in transports[p]

\* PeerManager.getTransport: the transport in the map of the peer socketId.
getTransport(socketId, transportId) ==
  socketId \in Range(peers) /\ transportId \in transports[socketId]

\* Mutant: the transport is stored in the map of every peer.
addTransport_everyPeer(socketId, transport) ==
  transports' = [p \in PeerIds |->
                   IF p \in Range(peers) THEN transports[p] \cup {transport}
                                         ELSE transports[p]]

addTransport(socketId, transport) ==
  transports' = IF socketId \in Range(peers)
                  THEN [transports EXCEPT ![socketId] = @ \cup {transport}]
                  ELSE transports

\* Mutant: the producer is stored without looking the peer up.
addProducer_noLookup(socketId, producer) ==
  producers' = [producers EXCEPT ![socketId] = @ \cup {producer}]

addProducer(socketId, producer) ==
  producers' = IF socketId \in Range(peers)
                 THEN [producers EXCEPT ![socketId] = @ \cup {producer}]
                 ELSE producers

addConsumer(socketId, consumer) ==
  consumers' = IF socketId \in Range(peers)
                 THEN [consumers EXCEPT ![socketId] = @ \cup {consumer}]
                 ELSE consumers

\* Mutant: the peer asking is not left out.
getExistingProducers_noExclude(excludeSocketId) ==
  UNION {{[producerId |-> x, socketId |-> p] : x \in producers[p]} : p \in Range(peers)}

\* getExistingProducers: the { producerId, socketId } of every producer in the
\* map of every peer but excludeSocketId.
getExistingProducers(excludeSocketId) ==
  UNION {{[producerId |-> x, socketId |-> p] : x \in producers[p]} :
           p \in Range(peers) \ {excludeSocketId}}

\* Mutant: every entry of the table is set to the new index.
setProducerAssignment_overwriteAll(producerId, transportIndex) ==
  producerAssignments' =
    [x \in DOMAIN producerAssignments \cup {producerId} |-> transportIndex]

setProducerAssignment(producerId, transportIndex) ==
  producerAssignments' =
    [x \in DOMAIN producerAssignments \cup {producerId} |->
       IF x = producerId THEN transportIndex ELSE producerAssignments[x]]

\* Mutant: producerAssignments.clear().
removeProducerAssignments_clear(ids) == <<>>

\* The table after removeProducerAssignment of every id in ids.
removeProducerAssignments(ids) ==
  [x \in DOMAIN producerAssignments \ ids |-> producerAssignments[x]]

\* transport.close() closes the producers and consumers the transport holds
\* and fires their "transportclose" event in the same call.
producersOn(T) ==
  {x \in ProducerIds : engineProducers[x].handle = "open" /\ engineProducers[x].tid \in T}

consumersOn(T) ==
  {c \in ConsumerIds : engineConsumers[c].state = "open" /\ engineConsumers[c].tid \in T}

closeTransports(T) ==
  [t \in TransportIds |->
     IF t \in T /\ engineTransports[t].state = "open"
       THEN [engineTransports[t] EXCEPT !.state = "closed"] ELSE engineTransports[t]]

closeProducers(P) ==
  [x \in ProducerIds |->
     IF x \in P /\ engineProducers[x].handle = "open"
       THEN [engineProducers[x] EXCEPT !.handle = "closed"] ELSE engineProducers[x]]

closeConsumers(C) ==
  [c \in ConsumerIds |->
     IF c \in C /\ engineConsumers[c].state = "open"
       THEN [engineConsumers[c] EXCEPT !.state = "closed"] ELSE engineConsumers[c]]

\* Mutant: the transports are not closed.
cleanupPeerResources_transportsLeftOpen(socketId) ==
  LET P == producers[socketId]
      C == consumers[socketId]
  IN /\ engineTransports' = engineTransports
     /\ engineProducers' = closeProducers(P)
     /\ engineConsumers' = closeConsumers(C)
     /\ producerAssignments' = removeProducerAssignments(P)
     /\ transports' = [transports EXCEPT ![socketId] = {}]
     /\ producers' = [producers EXCEPT ![socketId] = {}]
     /\ consumers' = [consumers EXCEPT ![socketId] = {}]

\* cleanupPeerResources: close the transports (their producers and consumers go
\* with them, and the "transportclose" handlers drop them from the peer and from
\* the assignment table), then the producers and the consumers still in the
\* peer's maps, then clear the maps.
cleanupPeerResources(socketId) ==
  LET T == transports[socketId]
      P == producersOn(T) \cup producers[socketId]
      C == consumersOn(T) \cup consumers[socketId]
  IN /\ engineTransports' = closeTransports(T)
     /\ engineProducers' = closeProducers(P)
     /\ engineConsumers' = closeConsumers(C)
     /\ producerAssignments' = removeProducerAssignments(P)
     /\ transports' = [transports EXCEPT ![socketId] = {}]
     /\ producers' = [producers EXCEPT ![socketId] = {}]
     /\ consumers' = [consumers EXCEPT ![socketId] = {}]

\* Mutant: the peer is deleted by position, peers.splice(indexOf(socketId), 1),
\* outside the test for its presence; position -1 deletes the last one.
removePeer_spliceIndexOf(socketId) ==
  IF socketId \in Range(peers)
    THEN /\ cleanupPeerResources(socketId)
         /\ peers' = SelectSeq(peers, LAMBDA q : q # socketId)
    ELSE /\ peers' = SubSeq(peers, 1, Len(peers) - 1)
         /\ UNCHANGED <<transports, producers, consumers, producerAssignments,
                        engineTransports, engineProducers, engineConsumers>>

\* Mutant: the registry is cleared, this.peers.clear(), in place of the delete.
removePeer_clearsRegistry(socketId) ==
  IF socketId \in Range(peers)
    THEN /\ cleanupPeerResources(socketId)
         /\ peers' = <<>>
    ELSE UNCHANGED <<registryVars, engineTransports, engineProducers, engineConsumers>>

removePeer(socketId) ==
  IF socketId \in Range(peers)
    THEN /\ cleanupPeerResources(socketId)
         /\ peers' = SelectSeq(peers, LAMBDA q : q # socketId)
    ELSE UNCHANGED <<peers, transports, producers, consumers, producerAssignments,
                     engineTransports, engineProducers, engineConsumers>>

----------------------------------------------------------------------------
\* WebRTCServer

\* Mutant: io.emit, every connected socket.
broadcast_toAll(socketId) == connected

\* socket.broadcast: every connected socket but the sender.
broadcast(socketId) == connected \ {socketId}

\* The "new-producer" event handleProduce broadcasts.
newProducerEvent(socketId, producer) ==
  [event |-> "new-producer", to |-> broadcast(socketId),
   producerId |-> producer, socketId |-> socketId, producers |-> {}]

\* The "existingProducers" event for a socket; socket.emit reaches the socket
\* only while it is connected.
existingProducersEvent(socketId, isConnected) ==
  [event |-> "existingProducers", to |-> IF isConnected THEN {socketId} ELSE {},
   producerId |-> 0, socketId |-> socketId,
   producers |-> getExistingProducers(socketId)]

\* handleProduce after createRtpConsumerForProducer: "new-producer" to the
\* others, then "existingProducers" to the sender if the list is not empty.
broadcastNewProducer(producer) ==
  LET socketId == engineProducers[producer].owner
  IN /\ newProducerEmitted' = newProducerEmitted \cup {producer}
     /\ sent' = <<newProducerEvent(socketId, producer)>> \o
                 (IF getExistingProducers(socketId) # {}
                    THEN <<existingProducersEvent(socketId, socketId \in connected)>>
                    ELSE <<>>)

\* A new socket: socket.io gives it an id no earlier socket had.
handleConnection ==
  /\ nConn < MaxPeers
  /\ nConn' = nConn + 1
  /\ connected' = connected \cup {nConn + 1}
  /\ addPeer(nConn + 1)
  /\ addCalls' = [addCalls EXCEPT ![nConn + 1] = @ + 1]
  /\ sent' = <<existingProducersEvent(nConn + 1, TRUE)>>
  /\ UNCHANGED <<producerAssignments, engineVars, newProducerEmitted, removeCalls, process, bridgeVars>>

\* Mutant: the plain transports at the leaving peer's index are closed too.
handleDisconnection_closesRtpTransports(socketId) ==
  /\ socketId \in connected
  /\ connected' = connected \ {socketId}
  /\ removePeer(socketId)
  /\ removeCalls' = [removeCalls EXCEPT ![socketId] = @ + 1]
  /\ rtpTransports' = rtpTransports \ {<<k, indexOf(socketId)>> : k \in Kinds}
  /\ sent' = <<>>
  /\ UNCHANGED <<nConn, rtpConsumers, newProducerEmitted, addCalls, process,
                 ffmpeg, spawns, teardown, children, handle>>

handleDisconnection(socketId) ==
  /\ socketId \in connected
  /\ connected' = connected \ {socketId}
  /\ removePeer(socketId)
  /\ removeCalls' = [removeCalls EXCEPT ![socketId] = @ + 1]
  /\ sent' = <<>>
  /\ UNCHANGED <<nConn, rtpConsumers, newProducerEmitted, addCalls, process, bridgeVars>>

\* The id the engine gives the next handle a socket asks for.
FreshTransport(socketId) ==
  CHOOSE t \in TransportIdsOf(socketId) :
    /\ engineTransports[t].state = "none"
    /\ \A u \in TransportIdsOf(socketId) : u < t => engineTransports[u].state # "none"

FreshProducer(socketId) ==
  CHOOSE x \in ProducerIdsOf(socketId) :
    /\ engineProducers[x].stage = "none"
    /\ \A u \in ProducerIdsOf(socketId) : u < x => engineProducers[u].stage # "none"

FreshConsumer(socketId) ==
  CHOOSE c \in ConsumerIdsOf(socketId) :
    /\ engineConsumers[c].state = "none"
    /\ \A u \in ConsumerIdsOf(socketId) : u < c => engineConsumers[u].state # "none"

\* handleCreateWebRtcTransport up to `await createWebRtcTransport()`.
handleCreateWebRtcTransport(socketId, isSender) ==
  /\ socketId \in connected
  /\ \E t \in TransportIdsOf(socketId) : engineTransports[t].state = "none"
  /\ engineTransports' = [engineTransports EXCEPT
       ![FreshTransport(socketId)] = [@ EXCEPT !.owner = socketId, !.state = "pending",
                                               !.isSender = isSender]]
  /\ sent' = <<>>
  /\ UNCHANGED <<registryVars, nConn, connected, engineProducers, engineConsumers,
                 rtpConsumers, newProducerEmitted, removeCalls, addCalls, process, bridgeVars>>

\* The await resolves: addTransport, then the success reply.
createWebRtcTransportResolved(t) ==
  /\ process = "running"
  /\ engineTransports[t].state = "pending"
  /\ engineTransports' = [engineTransports EXCEPT
       ![t].state = "open", ![t].acks = Append(@, "ok")]
  /\ addTransport(engineTransports[t].owner, t)
  /\ sent' = <<>>
  /\ UNCHANGED <<peers, producers, consumers, producerAssignments, nConn, connected,
                 engineProducers, engineConsumers, rtpConsumers, newProducerEmitted, removeCalls, addCalls, process, bridgeVars>>

\* The await rejects: the catch block replies { error }.
createWebRtcTransportRejected(t) ==
  /\ engineTransports[t].state = "pending"
  /\ engineTransports' = [engineTransports EXCEPT
       ![t].state = "failed", ![t].acks = Append(@, "error")]
  /\ sent' = <<>>
  /\ UNCHANGED <<registryVars, nConn, connected, engineProducers, engineConsumers,
                 rtpConsumers, newProducerEmitted, removeCalls, addCalls, process, bridgeVars>>

\* handleConnectWebRtcTransport up to `await transport.connect()`.
handleConnectWebRtcTransport(socketId, transportId) ==
  /\ socketId \in connected
  /\ getTransport(socketId, transportId)
  /\ engineTransports' = [engineTransports EXCEPT
       ![transportId].connecting = Append(@, socketId)]
  /\ sent' = <<>>
  /\ UNCHANGED <<registryVars, nConn, connected, engineProducers, engineConsumers,
                 rtpConsumers, newProducerEmitted, removeCalls, addCalls, process, bridgeVars>>

\* handleConnectWebRtcTransport without the transport in the peer's map:
\* "Transport not found".
handleConnectNotFound(socketId, transportId) ==
  /\ socketId \in connected
  /\ ~getTransport(socketId, transportId)
  /\ engineTransports' = [engineTransports EXCEPT
       ![transportId].connectReplies =
          Append(@, [to |-> socketId, error |-> "Transport not found"])]
  /\ sent' = <<>>
  /\ UNCHANGED <<registryVars, nConn, connected, engineProducers, engineConsumers,
                 rtpConsumers, newProducerEmitted, removeCalls, addCalls, process, bridgeVars>>

\* transport.connect() was called on the transport and resolved.
dtlsConnected(t) ==
  \E i \in DOMAIN engineTransports[t].connectReplies :
    engineTransports[t].connectReplies[i].error = "none"

\* transport.connect() resolves: the worker has the transport and connect() was
\* not called on it before; the reply is empty.
connectResolved(t) ==
  /\ process = "running"
  /\ engineTransports[t].connecting # <<>>
  /\ engineTransports[t].state = "open"
  /\ ~dtlsConnected(t)
  /\ engineTransports' = [engineTransports EXCEPT
       ![t].connecting = Tail(@),
       ![t].connectReplies =
          Append(@, [to |-> Head(engineTransports[t].connecting), error |-> "none"])]
  /\ sent' = <<>>
  /\ UNCHANGED <<registryVars, nConn, connected, engineProducers, engineConsumers,
                 rtpConsumers, newProducerEmitted, removeCalls, addCalls, process, bridgeVars>>

\* Mutant: no try/catch around the await; the rejection ends the handler
\* without a reply.
connectRejected_uncaught(t) ==
  /\ engineTransports[t].connecting # <<>>
  /\ engineTransports' = [engineTransports EXCEPT ![t].connecting = Tail(@)]
  /\ sent' = <<>>
  /\ UNCHANGED <<registryVars, nConn, connected, engineProducers, engineConsumers,
                 rtpConsumers, newProducerEmitted, removeCalls, addCalls, process, bridgeVars>>

\* transport.connect() rejects (the transport is closed, connect() was already
\* called, the parameters are refused): the catch block replies { error }.
connectRejected(t) ==
  /\ engineTransports[t].connecting # <<>>
  /\ engineTransports' = [engineTransports EXCEPT
       ![t].connecting = Tail(@),
       ![t].connectReplies =
          Append(@, [to |-> Head(engineTransports[t].connecting), error |-> "engine"])]
  /\ sent' = <<>>
  /\ UNCHANGED <<registryVars, nConn, connected, engineProducers, engineConsumers,
                 rtpConsumers, newProducerEmitted, removeCalls, addCalls, process, bridgeVars>>

\* The "dtlsstatechange" event with state "closed" on a transport that
\* addTransport recorded: transport.close() closes the producers and the
\* consumers on the transport and fires their "transportclose" events, whose
\* handlers delete them from the peer (and the producers from the assignment
\* table); then the transport is deleted from the peer.
\* Mutant: the "transportclose" handler of a producer leaves its assignment.
transportDtlsClosed_assignmentsKept(t) ==
  LET socketId == engineTransports[t].owner
      P == producersOn({t})
      C == consumersOn({t})
  IN /\ process = "running"
     /\ engineTransports[t].state = "open"
     /\ t \in transports[socketId]
     /\ dtlsConnected(t)
     /\ engineTransports' = closeTransports({t})
     /\ engineProducers' = closeProducers(P)
     /\ engineConsumers' = closeConsumers(C)
     /\ producers' = [producers EXCEPT ![socketId] = @ \ P]
     /\ consumers' = [consumers EXCEPT ![socketId] = @ \ C]
     /\ transports' = [transports EXCEPT ![socketId] = @ \ {t}]
     /\ sent' = <<>>
     /\ UNCHANGED <<peers, producerAssignments, nConn, connected, rtpConsumers,
                    newProducerEmitted, removeCalls, addCalls, process, bridgeVars>>

transportDtlsClosed(t) ==
  LET socketId == engineTransports[t].owner
      P == producersOn({t})
      C == consumersOn({t})
      present == socketId \in Range(peers)
  IN /\ process = "running"
     /\ engineTransports[t].state = "open"
     /\ t \in transports[socketId]
     /\ dtlsConnected(t)
     /\ engineTransports' = closeTransports({t})
     /\ engineProducers' = closeProducers(P)
     /\ engineConsumers' = closeConsumers(C)
     /\ producers' = IF present THEN [producers EXCEPT ![socketId] = @ \ P] ELSE producers
     /\ producerAssignments' =
          IF present THEN removeProducerAssignments(P) ELSE producerAssignments
     /\ consumers' = IF present THEN [consumers EXCEPT ![socketId] = @ \ C] ELSE consumers
     /\ transports' = IF present THEN [transports EXCEPT ![socketId] = @ \ {t}]
                                 ELSE transports
     /\ sent' = <<>>
     /\ UNCHANGED <<peers, nConn, connected, rtpConsumers, newProducerEmitted,
                    removeCalls, addCalls, process, bridgeVars>>

\* handleProduce up to `await transport.produce()`; without the transport in the
\* peer's map the handler replies "Transport not found" and changes nothing.
handleProduce(socketId, transportId, kind) ==
  /\ socketId \in connected
  /\ getTransport(socketId, transportId)
  /\ \E x \in ProducerIdsOf(socketId) : engineProducers[x].stage = "none"
  /\ engineProducers' = [engineProducers EXCEPT
       ![FreshProducer(socketId)] = [owner |-> socketId, tid |-> transportId, kind |-> kind,
                           stage |-> "produce", handle |-> "none", idx |-> -1,
                           acks |-> <<>>]]
  /\ sent' = <<>>
  /\ UNCHANGED <<registryVars, nConn, connected, engineTransports, engineConsumers,
                 rtpConsumers, newProducerEmitted, removeCalls, addCalls, process, bridgeVars>>

\* MediasoupService.createRtpConsumer finds a plain transport at the index:
\* videoTransports and audioTransports hold two transports each.
hasRtpTransport(transportIndex) == transportIndex \in 0..(RtpTransportsPerKind - 1)

\* handleProduce replying "Transport not found".
handleProduceRefused(socketId, transportId, kind) ==
  /\ socketId \in connected
  /\ ~getTransport(socketId, transportId)
  /\ \E x \in ProducerIdsOf(socketId) : engineProducers[x].stage = "none"
  /\ engineProducers' = [engineProducers EXCEPT
       ![FreshProducer(socketId)] = [owner |-> socketId, tid |-> transportId, kind |-> kind,
                           stage |-> "refused", handle |-> "none", idx |-> -1,
                           acks |-> <<"error">>]]
  /\ sent' = <<>>
  /\ UNCHANGED <<registryVars, nConn, connected, engineTransports, engineConsumers,
                 rtpConsumers, newProducerEmitted, removeCalls, addCalls, process, bridgeVars>>

\* transport.produce() resolves: addProducer, then createRtpConsumerForProducer
\* up to `await rtpTransport.consume()`; with transport index -1, or no plain
\* transport at the index, that call returns without awaiting and the handler
\* goes on to the broadcast and the reply.
produceResolved(x) ==
  LET socketId == engineProducers[x].owner
      transportIndex == getProducerTransportIndex(socketId)
  IN /\ process = "running"
     /\ engineProducers[x].stage = "produce"
     /\ addProducer(socketId, x)
     /\ IF transportIndex = -1 \/ ~hasRtpTransport(transportIndex)
          THEN /\ engineProducers' = [engineProducers EXCEPT
                    ![x].handle = "open", ![x].stage = "done",
                    ![x].acks = Append(@, "ok")]
               /\ broadcastNewProducer(x)
          ELSE /\ engineProducers' = [engineProducers EXCEPT
                    ![x].handle = "open", ![x].stage = "bridge",
                    ![x].idx = transportIndex]
               /\ sent' = <<>>
               /\ UNCHANGED newProducerEmitted
     /\ UNCHANGED <<peers, transports, consumers, producerAssignments, nConn,
                    connected, engineTransports, engineConsumers, rtpConsumers, removeCalls, addCalls, process, bridgeVars>>

\* Mutant: the rejection is not caught; "unhandledRejection" ends the process.
produceRejected_uncaught(x) ==
  /\ engineProducers[x].stage = "produce"
  /\ engineProducers' = [engineProducers EXCEPT ![x].stage = "failed"]
  /\ sent' = <<>>
  /\ process' = "exited"
  /\ UNCHANGED <<registryVars, nConn, connected, engineTransports, engineConsumers,
                 rtpConsumers, newProducerEmitted, removeCalls, addCalls, bridgeVars>>

\* transport.produce() rejects: the catch block replies { error }.
produceRejected(x) ==
  /\ engineProducers[x].stage = "produce"
  /\ engineProducers' = [engineProducers EXCEPT
       ![x].stage = "failed", ![x].acks = Append(@, "error")]
  /\ sent' = <<>>
  /\ UNCHANGED <<registryVars, nConn, connected, engineTransports, engineConsumers,
                 rtpConsumers, newProducerEmitted, removeCalls, addCalls, process, bridgeVars>>

\* createRtpConsumerForProducer after the await, for a consumer that was created.
recordRtpConsumer(x) ==
  /\ rtpConsumers' = rtpConsumers \cup {<<x, engineProducers[x].idx>>}
  /\ setProducerAssignment(x, engineProducers[x].idx)

\* rtpTransport.consume() resolves: the assignment is stored, then handleProduce
\* broadcasts and replies.
rtpConsumeResolved(x) ==
  /\ process = "running"
  /\ engineProducers[x].stage = "bridge"
  /\ recordRtpConsumer(x)
  /\ broadcastNewProducer(x)
  /\ engineProducers' = [engineProducers EXCEPT
       ![x].stage = "done", ![x].acks = Append(@, "ok")]
  /\ UNCHANGED <<peers, transports, producers, consumers, nConn, connected,
                 engineTransports, engineConsumers, removeCalls, addCalls, process, bridgeVars>>

\* rtpTransport.consume() rejects: createRtpConsumer catches, returns null, no
\* assignment is stored; handleProduce broadcasts and replies all the same.
rtpConsumeRejected(x) ==
  /\ engineProducers[x].stage = "bridge"
  /\ broadcastNewProducer(x)
  /\ engineProducers' = [engineProducers EXCEPT
       ![x].stage = "done", ![x].acks = Append(@, "ok")]
  /\ UNCHANGED <<registryVars, nConn, connected, engineTransports, engineConsumers,
                 rtpConsumers, removeCalls, addCalls, process, bridgeVars>>

\* Mutant: the test is skipped.
canConsume_skipped(producerId) == TRUE

\* router.canConsume: the router knows every producer handle that is not closed.
canConsume(producerId) == engineProducers[producerId].handle = "open"

\* handleConsume up to `await transport.consume()`.
handleConsume(socketId, transportId, producerId) ==
  /\ socketId \in connected
  /\ getTransport(socketId, transportId)
  /\ canConsume(producerId)
  /\ \E c \in ConsumerIdsOf(socketId) : engineConsumers[c].state = "none"
  /\ engineConsumers' = [engineConsumers EXCEPT
       ![FreshConsumer(socketId)] = [owner |-> socketId, tid |-> transportId,
                           pid |-> producerId, state |-> "pending", paused |-> TRUE,
                           resuming |-> engineConsumers[FreshConsumer(socketId)].resuming,
                           replies |-> engineConsumers[FreshConsumer(socketId)].replies,
                           acks |-> <<>>]]
  /\ sent' = <<>>
  /\ UNCHANGED <<registryVars, nConn, connected, engineTransports, engineProducers,
                 rtpConsumers, newProducerEmitted, removeCalls, addCalls, process, bridgeVars>>

\* handleConsume replying "Receiving transport not found" or "Cannot consume".
handleConsumeRefused(socketId, transportId, producerId) ==
  /\ socketId \in connected
  /\ ~getTransport(socketId, transportId) \/ ~canConsume(producerId)
  /\ \E c \in ConsumerIdsOf(socketId) : engineConsumers[c].state = "none"
  /\ engineConsumers' = [engineConsumers EXCEPT
       ![FreshConsumer(socketId)] = [@ EXCEPT
          !.owner = socketId, !.tid = transportId, !.pid = producerId,
          !.state = "refused", !.acks = <<"error">>]]
  /\ sent' = <<>>
  /\ UNCHANGED <<registryVars, nConn, connected, engineTransports, engineProducers,
                 rtpConsumers, newProducerEmitted, removeCalls, addCalls, process, bridgeVars>>

\* A producer handle returned for a transport that was closed during the await:
\* the worker no longer has it.
orphanProducer(x) ==
  /\ engineProducers[x].handle = "open"
  /\ engineTransports[engineProducers[x].tid].state = "closed"

consumeResolved(c) ==
  /\ process = "running"
  /\ engineConsumers[c].state = "pending"
  /\ ~orphanProducer(engineConsumers[c].pid)
  /\ engineConsumers' = [engineConsumers EXCEPT
       ![c].state = "open", ![c].acks = Append(@, "ok")]
  /\ addConsumer(engineConsumers[c].owner, c)
  /\ sent' = <<>>
  /\ UNCHANGED <<peers, transports, producers, producerAssignments, nConn, connected,
                 engineTransports, engineProducers, rtpConsumers, newProducerEmitted, removeCalls, addCalls, process, bridgeVars>>

consumeRejected(c) ==
  /\ engineConsumers[c].state = "pending"
  /\ engineConsumers' = [engineConsumers EXCEPT
       ![c].state = "failed", ![c].acks = Append(@, "error")]
  /\ sent' = <<>>
  /\ UNCHANGED <<registryVars, nConn, connected, engineTransports, engineProducers,
                 rtpConsumers, newProducerEmitted, removeCalls, addCalls, process, bridgeVars>>

\* Mutant: the handler closes the consumer and leaves it in the peer's map.
consumerProducerClose_keptInMap(c) ==
  /\ engineConsumers[c].state = "open"
  /\ c \in consumers[engineConsumers[c].owner]
  /\ engineProducers[engineConsumers[c].pid].handle = "closed"
  /\ engineConsumers' = closeConsumers({c})
  /\ sent' = <<>>
  /\ UNCHANGED <<registryVars, nConn, connected, engineTransports, engineProducers,
                 rtpConsumers, newProducerEmitted, removeCalls, addCalls, process,
                 bridgeVars>>

\* The "producerclose" event of a consumer the registry holds: the handler set
\* in addConsumer closes it and deletes it from the peer, if the peer is there.
consumerProducerClose(c) ==
  LET socketId == engineConsumers[c].owner
  IN /\ engineConsumers[c].state = "open"
     /\ c \in consumers[socketId]
     /\ engineProducers[engineConsumers[c].pid].handle = "closed"
     /\ engineConsumers' = closeConsumers({c})
     /\ consumers' = IF socketId \in Range(peers)
                       THEN [consumers EXCEPT ![socketId] = @ \ {c}]
                       ELSE consumers
     /\ sent' = <<>>
     /\ UNCHANGED <<peers, transports, producers, producerAssignments, nConn,
                    connected, engineTransports, engineProducers, rtpConsumers,
                    newProducerEmitted, removeCalls, addCalls, process, bridgeVars>>

\* PeerManager.getConsumer: the consumer in the map of the peer socketId.
getConsumer_anyPeer(socketId, consumerId) ==
  \E p \in Range(peers) : consumerId \in consumers[p]

getConsumer(socketId, consumerId) ==
  socketId \in Range(peers) /\ consumerId \in consumers[socketId]

\* handleResume up to `await consumer.resume()`.
handleResume(socketId, consumerId) ==
  /\ socketId \in connected
  /\ getConsumer(socketId, consumerId)
  /\ engineConsumers' = [engineConsumers EXCEPT
       ![consumerId].resuming = Append(@, socketId)]
  /\ sent' = <<>>
  /\ UNCHANGED <<registryVars, nConn, connected, engineTransports, engineProducers,
                 rtpConsumers, newProducerEmitted, removeCalls, addCalls, process, bridgeVars>>

\* handleResume without the consumer in the peer's map: "Consumer not found".
handleResumeNotFound_silentAck(socketId, consumerId) ==
  /\ socketId \in connected
  /\ ~getConsumer(socketId, consumerId)
  /\ engineConsumers' = [engineConsumers EXCEPT
       ![consumerId].replies = Append(@, [to |-> socketId, error |-> "none"])]
  /\ sent' = <<>>
  /\ UNCHANGED <<registryVars, nConn, connected, engineTransports, engineProducers,
                 rtpConsumers, newProducerEmitted, removeCalls, addCalls, process, bridgeVars>>

handleResumeNotFound(socketId, consumerId) ==
  /\ socketId \in connected
  /\ ~getConsumer(socketId, consumerId)
  /\ engineConsumers' = [engineConsumers EXCEPT
       ![consumerId].replies = Append(@, [to |-> socketId, error |-> "Consumer not found"])]
  /\ sent' = <<>>
  /\ UNCHANGED <<registryVars, nConn, connected, engineTransports, engineProducers,
                 rtpConsumers, newProducerEmitted, removeCalls, addCalls, process, bridgeVars>>

\* The worker has the consumer while neither it nor its producer is closed.
consumerInWorker(c) ==
  /\ process = "running"
  /\ engineConsumers[c].state = "open"
  /\ engineProducers[engineConsumers[c].pid].handle = "open"

\* consumer.resume() resolves: the consumer is not paused, the reply is empty.
resumeResolved(c) ==
  /\ engineConsumers[c].resuming # <<>>
  /\ consumerInWorker(c)
  /\ engineConsumers' = [engineConsumers EXCEPT
       ![c].paused = FALSE,
       ![c].resuming = Tail(@),
       ![c].replies = Append(@, [to |-> Head(engineConsumers[c].resuming), error |-> "none"])]
  /\ sent' = <<>>
  /\ UNCHANGED <<registryVars, nConn, connected, engineTransports, engineProducers,
                 rtpConsumers, newProducerEmitted, removeCalls, addCalls, process, bridgeVars>>

\* consumer.resume() rejects, the worker no longer having the consumer: the
\* catch block replies { error }.
resumeRejected(c) ==
  /\ engineConsumers[c].resuming # <<>>
  /\ ~consumerInWorker(c)
  /\ engineConsumers' = [engineConsumers EXCEPT
       ![c].resuming = Tail(@),
       ![c].replies = Append(@, [to |-> Head(engineConsumers[c].resuming), error |-> "engine"])]
  /\ sent' = <<>>
  /\ UNCHANGED <<registryVars, nConn, connected, engineTransports, engineProducers,
                 rtpConsumers, newProducerEmitted, removeCalls, addCalls, process, bridgeVars>>

RECURSIVE resumesUpTo(_)
resumesUpTo(c) ==
  IF c = 0 THEN 0
  ELSE Len(engineConsumers[c].resuming) + Len(engineConsumers[c].replies)
         + resumesUpTo(c - 1)

usedResumes == resumesUpTo(MaxPeers * MaxConsumers)

\* A resume request names a consumer id that a consume request was made for.
resumeRequest(maxResumes) ==
  /\ usedResumes < maxResumes
  /\ \E p \in connected : \E c \in ConsumerIds :
       /\ engineConsumers[c].state # "none"
       /\ handleResume(p, c) \/ handleResumeNotFound(p, c)

RECURSIVE connectsUpTo(_)
connectsUpTo(t) ==
  IF t = 0 THEN 0
  ELSE Len(engineTransports[t].connecting) + Len(engineTransports[t].connectReplies)
         + connectsUpTo(t - 1)

usedConnects == connectsUpTo(MaxPeers * MaxJoinTransports)

usedTransports == Cardinality({t \in TransportIds : engineTransports[t].state # "none"})
usedProducers == Cardinality({x \in ProducerIds : engineProducers[x].stage # "none"})
usedConsumers == Cardinality({c \in ConsumerIds : engineConsumers[c].state # "none"})

createWebRtcTransportRequest(maxTransports) ==
  /\ usedTransports < maxTransports
  /\ \E p \in connected : handleCreateWebRtcTransport(p, TRUE)

\* The request's data: the client sends { isSender: true } for its send
\* transport and { isSender: false } for its receive transport.
createWebRtcTransportRequestAs(maxTransports) ==
  /\ usedTransports < maxTransports
  /\ \E p \in connected : \E isSender \in BOOLEAN : handleCreateWebRtcTransport(p, isSender)

produceRequest(maxProducers) ==
  /\ usedProducers < maxProducers
  /\ \E p \in connected : \E t \in transports[p], k \in Kinds : handleProduce(p, t, k)

consumeRequest(maxConsumers) ==
  /\ usedConsumers < maxConsumers
  /\ \E p \in connected : \E t \in transports[p], x \in ProducerIds :
        handleConsume(p, t, x)

\* Requests that name any transport id and any producer id that was given out,
\* or the producer id the engine would give out next.
knownTransports == {t \in TransportIds : engineTransports[t].state # "none"}

namedProducers(socketId) ==
  {x \in ProducerIds : engineProducers[x].stage # "none"}
    \cup {x \in ProducerIdsOf(socketId) : x = FreshProducer(socketId)}

\* A connectWebRtcTransport request names any transport id that was given out.
connectRequest(maxConnects) ==
  /\ usedConnects < maxConnects
  /\ \E p \in connected : \E t \in knownTransports :
       handleConnectWebRtcTransport(p, t) \/ handleConnectNotFound(p, t)

produceRequestAny(maxProducers) ==
  /\ usedProducers < maxProducers
  /\ \E p \in connected : \E t \in knownTransports, k \in Kinds :
       handleProduce(p, t, k) \/ handleProduceRefused(p, t, k)

consumeRequestAny(maxConsumers) ==
  /\ usedConsumers < maxConsumers
  /\ \E p \in connected : \E t \in knownTransports : \E x \in namedProducers(p) :
       handleConsume(p, t, x) \/ handleConsumeRefused(p, t, x)

\* The behaviours in which the engine performs every call asked of it: sockets
\* come and go at any moment, also while a call is awaited.  The calls the
\* engine rejects are part of FailureNext, ApiNext and RequestNext.
Next ==
  \/ handleConnection
  \/ \E p \in connected : handleDisconnection(p)
  \/ createWebRtcTransportRequest(MaxTransports)
  \/ \E t \in TransportIds : createWebRtcTransportResolved(t)
  \/ produceRequest(MaxProducers)
  \/ \E x \in ProducerIds : produceResolved(x)
  \/ \E x \in ProducerIds : rtpConsumeResolved(x)
  \/ consumeRequest(MaxConsumers)
  \/ \E c \in ConsumerIds : consumeResolved(c)
  \/ \E c \in ConsumerIds : consumerProducerClose(c)

Spec == Init /\ [][Next]_vars

\* The behaviours in which every socket stays connected and the engine creates
\* every transport and producer asked of it: admissions, transport creation
\* and produce requests, in every interleaving.
JoinNext ==
  \/ handleConnection
  \/ createWebRtcTransportRequest(MaxJoinTransports)
  \/ \E t \in TransportIds : createWebRtcTransportResolved(t)
  \/ produceRequest(MaxJoinProducers)
  \/ \E x \in ProducerIds : produceResolved(x)
  \/ \E x \in ProducerIds : rtpConsumeResolved(x)
  \/ \E x \in ProducerIds : rtpConsumeRejected(x)

JoinSpec == Init /\ [][JoinNext]_vars

\* PeerManager.removePeer called again for a socket id it was already called for.
removePeerAgain(socketId) ==
  /\ removeCalls[socketId] = 1
  /\ removePeer(socketId)
  /\ removeCalls' = [removeCalls EXCEPT ![socketId] = @ + 1]
  /\ sent' = <<>>
  /\ UNCHANGED <<nConn, connected, rtpConsumers, newProducerEmitted, addCalls, process, bridgeVars>>

\* PeerManager.addPeer called again for a socket id that is in the registry.
addPeerAgain(socketId) ==
  /\ socketId \in Range(peers)
  /\ addCalls[socketId] = 1
  /\ addPeer(socketId)
  /\ addCalls' = [addCalls EXCEPT ![socketId] = @ + 1]
  /\ sent' = <<>>
  /\ UNCHANGED <<producerAssignments, nConn, connected, engineVars,
                 newProducerEmitted, removeCalls, process, bridgeVars>>

\* The server's behaviours together with such repeated calls.
ApiNext ==
  \/ handleConnection
  \/ \E p \in connected : handleDisconnection(p)
  \/ \E p \in PeerIds : removePeerAgain(p)
  \/ createWebRtcTransportRequest(MaxTransports)
  \/ \E t \in TransportIds : createWebRtcTransportResolved(t)
  \/ \E t \in TransportIds : createWebRtcTransportRejected(t)
  \/ produceRequest(MaxApiRequests)
  \/ \E x \in ProducerIds : produceResolved(x)
  \/ \E x \in ProducerIds : produceRejected(x)
  \/ \E x \in ProducerIds : rtpConsumeResolved(x)
  \/ \E x \in ProducerIds : rtpConsumeRejected(x)
  \/ consumeRequest(MaxApiRequests)
  \/ \E c \in ConsumerIds : consumeResolved(c)
  \/ \E c \in ConsumerIds : consumeRejected(c)
  \/ \E c \in ConsumerIds : consumerProducerClose(c)

ApiSpec == Init /\ [][ApiNext]_vars

\* Admissions, transports and produce requests together with repeated calls of
\* PeerManager.addPeer.
AddPeerNext ==
  \/ handleConnection
  \/ \E p \in PeerIds : addPeerAgain(p)
  \/ createWebRtcTransportRequest(MaxTransports)
  \/ \E t \in TransportIds : createWebRtcTransportResolved(t)
  \/ \E t \in TransportIds : createWebRtcTransportRejected(t)
  \/ produceRequest(MaxApiRequests)
  \/ \E x \in ProducerIds : produceResolved(x)
  \/ \E x \in ProducerIds : produceRejected(x)
  \/ \E x \in ProducerIds : rtpConsumeResolved(x)
  \/ \E x \in ProducerIds : rtpConsumeRejected(x)

AddPeerSpec == Init /\ [][AddPeerNext]_vars

\* The server's behaviours with resume requests.
ResumeNext ==
  \/ handleConnection
  \/ \E p \in connected : handleDisconnection(p)
  \/ createWebRtcTransportRequest(MaxTransports)
  \/ \E t \in TransportIds : createWebRtcTransportResolved(t)
  \/ \E t \in TransportIds : createWebRtcTransportRejected(t)
  \/ produceRequest(MaxApiRequests)
  \/ \E x \in ProducerIds : produceResolved(x)
  \/ \E x \in ProducerIds : produceRejected(x)
  \/ \E x \in ProducerIds : rtpConsumeResolved(x)
  \/ \E x \in ProducerIds : rtpConsumeRejected(x)
  \/ consumeRequest(MaxApiRequests)
  \/ \E c \in ConsumerIds : consumeResolved(c)
  \/ \E c \in ConsumerIds : consumeRejected(c)
  \/ \E c \in ConsumerIds : consumerProducerClose(c)
  \/ resumeRequest(MaxResumes)
  \/ \E c \in ConsumerIds : resumeResolved(c)
  \/ \E c \in ConsumerIds : resumeRejected(c)

ResumeSpec == Init /\ [][ResumeNext]_vars

\* The server's behaviours with transports asked for in either role.
RoleNext ==
  \/ handleConnection
  \/ \E p \in connected : handleDisconnection(p)
  \/ createWebRtcTransportRequestAs(MaxTransports)
  \/ \E t \in TransportIds : createWebRtcTransportResolved(t)
  \/ \E t \in TransportIds : createWebRtcTransportRejected(t)
  \/ produceRequest(MaxApiRequests)
  \/ \E x \in ProducerIds : produceResolved(x)
  \/ \E x \in ProducerIds : produceRejected(x)
  \/ \E x \in ProducerIds : rtpConsumeResolved(x)
  \/ \E x \in ProducerIds : rtpConsumeRejected(x)
  \/ consumeRequest(MaxApiRequests)
  \/ \E c \in ConsumerIds : consumeResolved(c)
  \/ \E c \in ConsumerIds : consumeRejected(c)
  \/ \E c \in ConsumerIds : consumerProducerClose(c)

RoleSpec == Init /\ [][RoleNext]_vars

\* The worker's "died" event: the engine closes the router and with it every
\* transport, the plain RTP transports included, and every producer and
\* consumer.  For the peers' handles:
\* transport, producer and consumer; the "transportclose" handlers PeerManager
\* set drop the producers and consumers from the peers' maps and the
\* producers' assignments; the exit is scheduled two seconds later.
workerDied ==
  LET P == UNION {producers[p] : p \in PeerIds}
  IN /\ process = "running"
     /\ process' = "workerDied"
     /\ engineTransports' = closeTransports(TransportIds)
     /\ engineProducers' = closeProducers(ProducerIds)
     /\ engineConsumers' = closeConsumers(ConsumerIds)
     /\ producers' = [p \in PeerIds |-> {}]
     /\ consumers' = [p \in PeerIds |-> {}]
     /\ producerAssignments' = removeProducerAssignments(P)
     /\ rtpTransports' = {}
     /\ sent' = <<>>
     /\ UNCHANGED <<peers, transports, nConn, connected, rtpConsumers,
                    newProducerEmitted, removeCalls, addCalls, ffmpeg, spawns,
                    teardown, children, handle>>

\* setTimeout(() => process.exit(1), 2000) fires.
processExit ==
  /\ process = "workerDied"
  /\ process' = "exited"
  /\ sent' = <<>>
  /\ UNCHANGED <<registryVars, nConn, connected, engineVars, newProducerEmitted,
                 removeCalls, addCalls, bridgeVars>>

\* The server's behaviours with requests that name ids the requester does not
\* hold and with the death of the worker; after the exit nothing runs.
FailureNext ==
  \/ workerDied
  \/ processExit
  \/ process # "exited" /\ handleConnection
  \/ process # "exited" /\ \E p \in connected : handleDisconnection(p)
  \/ process # "exited" /\ createWebRtcTransportRequest(MaxTransports)
  \/ process # "exited" /\ \E t \in TransportIds : createWebRtcTransportResolved(t)
  \/ process # "exited" /\ \E t \in TransportIds : createWebRtcTransportRejected(t)
  \/ process # "exited" /\ produceRequestAny(MaxApiRequests)
  \/ process # "exited" /\ \E x \in ProducerIds : produceResolved(x)
  \/ process # "exited" /\ \E x \in ProducerIds : produceRejected(x)
  \/ process # "exited" /\ \E x \in ProducerIds : rtpConsumeResolved(x)
  \/ process # "exited" /\ \E x \in ProducerIds : rtpConsumeRejected(x)
  \/ process # "exited" /\ consumeRequestAny(MaxApiRequests)
  \/ process # "exited" /\ \E c \in ConsumerIds : consumeResolved(c)
  \/ process # "exited" /\ \E c \in ConsumerIds : consumeRejected(c)
  \/ process # "exited" /\ \E c \in ConsumerIds : consumerProducerClose(c)

FailureSpec == Init /\ [][FailureNext]_vars

\* The behaviours in which every socket is admitted before the first one
\* leaves, and then produce: socket k is admitted with k - 1 peers in the
\* registry.
SaturatedNext ==
  \/ handleConnection
  \/ nConn = MaxPeers /\ \E p \in connected : handleDisconnection(p)
  \/ createWebRtcTransportRequest(MaxTransports)
  \/ \E t \in TransportIds : createWebRtcTransportResolved(t)
  \/ \E t \in TransportIds : createWebRtcTransportRejected(t)
  \/ produceRequest(MaxApiRequests)
  \/ \E x \in ProducerIds : produceResolved(x)
  \/ \E x \in ProducerIds : produceRejected(x)
  \/ \E x \in ProducerIds : rtpConsumeResolved(x)
  \/ \E x \in ProducerIds : rtpConsumeRejected(x)

SaturatedSpec == Init /\ [][SaturatedNext]_vars

\* Bounds of the behaviours with every kind of request (RequestSpec): sockets
\* accepted and connectWebRtcTransport requests (produce, consume and resume
\* requests are bounded by MaxApiRequests).
MaxRequestPeers == 2
MaxConnects == 1

\* The server's behaviours with every request the protocol has, each naming
\* any id that was given out.
RequestNext ==
  \/ nConn < MaxRequestPeers /\ handleConnection
  \/ \E p \in connected : handleDisconnection(p)
  \/ createWebRtcTransportRequest(MaxTransports)
  \/ \E t \in TransportIds : createWebRtcTransportResolved(t)
  \/ \E t \in TransportIds : createWebRtcTransportRejected(t)
  \/ connectRequest(MaxConnects)
  \/ \E t \in TransportIds : connectResolved(t)
  \/ \E t \in TransportIds : connectRejected(t)
  \/ produceRequestAny(MaxApiRequests)
  \/ \E x \in ProducerIds : produceResolved(x)
  \/ \E x \in ProducerIds : produceRejected(x)
  \/ \E x \in ProducerIds : rtpConsumeResolved(x)
  \/ \E x \in ProducerIds : rtpConsumeRejected(x)
  \/ consumeRequestAny(MaxApiRequests)
  \/ \E c \in ConsumerIds : consumeResolved(c)
  \/ \E c \in ConsumerIds : consumeRejected(c)
  \/ \E c \in ConsumerIds : consumerProducerClose(c)
  \/ resumeRequest(MaxApiRequests)
  \/ \E c \in ConsumerIds : resumeResolved(c)
  \/ \E c \in ConsumerIds : resumeRejected(c)

RequestSpec == Init /\ [][RequestNext]_vars

\* Bound of the behaviours with transports that the engine reports closed
\* (CloseSpec): sockets accepted.
MaxClosePeers == 2

\* Two sockets with their transports, connect, produce and consume requests,
\* the engine's "dtlsstatechange" and "producerclose" events, and departures.
CloseNext ==
  \/ nConn < MaxClosePeers /\ handleConnection
  \/ \E p \in connected : handleDisconnection(p)
  \/ createWebRtcTransportRequest(MaxTransports)
  \/ \E t \in TransportIds : createWebRtcTransportResolved(t)
  \/ connectRequest(MaxConnects)
  \/ \E t \in TransportIds : connectResolved(t)
  \/ \E t \in TransportIds : connectRejected(t)
  \/ \E t \in TransportIds : transportDtlsClosed(t)
  \/ produceRequest(MaxApiRequests)
  \/ \E x \in ProducerIds : produceResolved(x)
  \/ \E x \in ProducerIds : rtpConsumeResolved(x)
  \/ consumeRequest(MaxApiRequests)
  \/ \E c \in ConsumerIds : consumeResolved(c)
  \/ \E c \in ConsumerIds : consumeRejected(c)
  \/ \E c \in ConsumerIds : consumerProducerClose(c)

CloseSpec == Init /\ [][CloseNext]_vars

\* The event loop delivers every event the engine has emitted.
CloseFairSpec ==
  CloseSpec /\ \A c \in ConsumerIds : WF_vars(consumerProducerClose(c))

----------------------------------------------------------------------------
\* Startup, the FFmpeg process and shutdown

\* The state after `new WebRTCServer()`: nothing is initialized, no FFmpeg
\* process was spawned.
Constructed ==
  /\ peers = <<>>
  /\ transports = [p \in PeerIds |-> {}]
  /\ producers = [p \in PeerIds |-> {}]
  /\ consumers = [p \in PeerIds |-> {}]
  /\ producerAssignments = <<>>
  /\ nConn = 0
  /\ connected = {}
  /\ engineTransports = [t \in TransportIds |-> NoTransport]
  /\ engineProducers = [x \in ProducerIds |-> NoProducer]
  /\ engineConsumers = [c \in ConsumerIds |-> NoConsumer]
  /\ rtpConsumers = {}
  /\ newProducerEmitted = {}
  /\ removeCalls = [p \in PeerIds |-> 0]
  /\ addCalls = [p \in PeerIds |-> 0]
  /\ sent = <<>>
  /\ process = "constructed"
  /\ ffmpeg = "null"
  /\ spawns = 0
  /\ rtpTransports = {}
  /\ teardown = <<>>
  /\ children = <<>>
  /\ handle = 0

\* Mutant: the servers are closed first.
cleanupCalls_serversFirst ==
  <<"io.close", "httpServer.close", "ffmpegService.stop", "peerManager.removePeer",
    "mediasoupService.cleanup">>

\* The calls of WebRTCServer.cleanup, in the order of its statements.
cleanupCalls ==
  <<"ffmpegService.stop", "peerManager.removePeer", "mediasoupService.cleanup",
    "io.close", "httpServer.close">>

\* FFmpegService.isRunning (a handle that stop() killed is set to null).
isRunning == ffmpeg = "alive"

\* FFmpegService.start: nothing when a process is running, else spawn.
ffmpegStart ==
  IF isRunning
    THEN UNCHANGED <<ffmpeg, spawns, children, handle>>
    ELSE /\ ffmpeg' = "alive"
         /\ spawns' = spawns + 1
         /\ children' = Append(children, "alive")
         /\ handle' = Len(children) + 1

\* FFmpegService.stop: nothing without a process, else kill and drop the handle.
ffmpegStop ==
  /\ ffmpeg' = IF ffmpeg = "alive" THEN "killed" ELSE ffmpeg
  /\ children' = IF handle # 0 THEN [children EXCEPT ![handle] = "killed"] ELSE children
  /\ handle' = 0
  /\ UNCHANGED spawns

\* WebRTCServer.start with mediasoupService.initialize() resolving: the worker,
\* the router and the four plain transports exist, FFmpeg is started, the
\* server listens.
start ==
  /\ process = "constructed"
  /\ process' = "running"
  /\ rtpTransports' = AllRtpTransports
  /\ ffmpegStart
  /\ sent' = <<>>
  /\ UNCHANGED <<registryVars, nConn, connected, engineVars, newProducerEmitted,
                 removeCalls, addCalls, teardown>>

\* WebRTCServer.start with initialize() rejecting: cleanup closes the plain
\* transports created so far, then process.exit(1).
startFailed ==
  /\ process = "constructed"
  /\ process' = "stopped"
  /\ rtpTransports' = {}
  /\ ffmpegStop
  /\ teardown' = teardown \o cleanupCalls
  /\ sent' = <<>>
  /\ UNCHANGED <<registryVars, nConn, connected, engineVars, newProducerEmitted,
                 removeCalls, addCalls>>

\* The "close" (or "error") event of the child c: the handler set in
\* setupEventHandlers logs and sets this.process to null, whichever child the
\* handle holds.
childClosed(c) ==
  /\ c \in DOMAIN children
  /\ children[c] # "exited"
  /\ children' = [children EXCEPT ![c] = "exited"]
  /\ handle' = 0
  /\ ffmpeg' = IF handle # 0 THEN "closed" ELSE ffmpeg

\* Mutant: the "close" handler starts a new process.
ffmpegClosed_respawn ==
  /\ process \in {"running", "workerDied"}
  /\ ffmpeg = "alive"
  /\ ffmpeg' = "alive"
  /\ spawns' = spawns + 1
  /\ children' = Append([children EXCEPT ![handle] = "exited"], "alive")
  /\ handle' = Len(children) + 1
  /\ sent' = <<>>
  /\ UNCHANGED <<registryVars, nConn, connected, engineVars, newProducerEmitted,
                 removeCalls, addCalls, process, rtpTransports, teardown>>

\* The FFmpeg process ends by itself ("close" or "error" of the child): the
\* handler logs and sets the handle to null.
ffmpegClosed ==
  /\ process \in {"running", "workerDied"}
  /\ ffmpeg = "alive"
  /\ childClosed(handle)
  /\ sent' = <<>>
  /\ UNCHANGED <<registryVars, nConn, connected, engineVars, newProducerEmitted,
                 removeCalls, addCalls, process, spawns, rtpTransports,
                 teardown>>

\* Bound of the behaviours of FFmpegService by itself (FFmpegSpec): spawns.
MaxSpawns == 5

\* FFmpegService under any sequence of start(), stop() and "close" events of
\* the children it spawned.
serviceStart ==
  /\ spawns < MaxSpawns
  /\ ffmpegStart
  /\ sent' = <<>>
  /\ UNCHANGED <<registryVars, nConn, connected, engineVars, newProducerEmitted,
                 removeCalls, addCalls, process, rtpTransports, teardown>>

serviceStop ==
  /\ ffmpegStop
  /\ sent' = <<>>
  /\ UNCHANGED <<registryVars, nConn, connected, engineVars, newProducerEmitted,
                 removeCalls, addCalls, process, rtpTransports, teardown>>

serviceChildClosed(c) ==
  /\ childClosed(c)
  /\ sent' = <<>>
  /\ UNCHANGED <<registryVars, nConn, connected, engineVars, newProducerEmitted,
                 removeCalls, addCalls, process, spawns, rtpTransports, teardown>>

FFmpegNext ==
  \/ serviceStart
  \/ serviceStop
  \/ \E c \in 1..MaxSpawns : serviceChildClosed(c)

FFmpegSpec == Constructed /\ [][FFmpegNext]_vars

\* Mutant: cleanup without ffmpegService.stop().
cleanup_ffmpegLeftRunning ==
  LET P == UNION {producersOn(transports[p]) \cup producers[p] : p \in PeerIds}
  IN /\ process \in {"running", "workerDied"}
     /\ process' = "stopped"
     /\ UNCHANGED <<ffmpeg, spawns, children, handle>>
     /\ teardown' = teardown \o Tail(cleanupCalls)
     /\ peers' = <<>>
     /\ transports' = [p \in PeerIds |-> {}]
     /\ producers' = [p \in PeerIds |-> {}]
     /\ consumers' = [p \in PeerIds |-> {}]
     /\ producerAssignments' = removeProducerAssignments(P)
     /\ rtpTransports' = {}
     /\ engineTransports' = closeTransports(TransportIds)
     /\ engineProducers' = closeProducers(ProducerIds)
     /\ engineConsumers' = closeConsumers(ConsumerIds)
     /\ connected' = {}
     /\ sent' = <<>>
     /\ UNCHANGED <<nConn, rtpConsumers, newProducerEmitted, removeCalls, addCalls>>

\* SIGTERM or SIGINT: WebRTCServer.cleanup, then process.exit(0).  cleanup
\* stops FFmpeg, removes every peer (closing what its maps hold), closes the
\* plain transports, the router (and with it every handle left) and the
\* worker, then the socket server.  Its two awaits are on promises that are
\* already settled, so no event is handled in between.
cleanup ==
  LET P == UNION {producersOn(transports[p]) \cup producers[p] : p \in PeerIds}
  IN /\ process \in {"running", "workerDied"}
     /\ process' = "stopped"
     /\ ffmpegStop
     /\ teardown' = teardown \o cleanupCalls
     /\ peers' = <<>>
     /\ transports' = [p \in PeerIds |-> {}]
     /\ producers' = [p \in PeerIds |-> {}]
     /\ consumers' = [p \in PeerIds |-> {}]
     /\ producerAssignments' = removeProducerAssignments(P)
     /\ rtpTransports' = {}
     /\ engineTransports' = closeTransports(TransportIds)
     /\ engineProducers' = closeProducers(ProducerIds)
     /\ engineConsumers' = closeConsumers(ConsumerIds)
     /\ connected' = {}
     /\ sent' = <<>>
     /\ UNCHANGED <<nConn, rtpConsumers, newProducerEmitted, removeCalls, addCalls>>

\* Bounds of the behaviours in which two sockets fill the bridge (BridgeSpec):
\* sockets accepted and produce requests.
MaxBridgePeers == 2
MaxBridgeProducers == 4

\* Two sockets, their transports and their produce requests, all served by the
\* engine, with departures.
BridgeNext ==
  \/ nConn < MaxBridgePeers /\ handleConnection
  \/ \E p \in connected : handleDisconnection(p)
  \/ createWebRtcTransportRequest(MaxTransports)
  \/ \E t \in TransportIds : createWebRtcTransportResolved(t)
  \/ produceRequest(MaxBridgeProducers)
  \/ \E x \in ProducerIds : produceResolved(x)
  \/ \E x \in ProducerIds : rtpConsumeResolved(x)

BridgeSpec == Init /\ [][BridgeNext]_vars

\* Mutant: the socket handlers are set up in the constructor.
serving_fromConstruction == process \in {"constructed", "running", "workerDied"}

\* The socket handlers exist and the server listens: start() got past
\* initialize() and neither cleanup nor process.exit has run.
serving == process \in {"running", "workerDied"}

\* The sockets admitted, the transports created and the produce requests made
\* over the life of one server process.
MaxLifecyclePeers == 1
MaxLifecycleTransports == 1
MaxLifecycleProducers == 1

\* The server from its construction to its exit: startup, admissions and
\* departures, transports and produce requests, the end of the FFmpeg
\* process, the death of the worker and the signals.
LifecycleNext ==
  \/ start
  \/ startFailed
  \/ ffmpegClosed
  \/ cleanup
  \/ workerDied
  \/ processExit
  \/ serving /\ nConn < MaxLifecyclePeers /\ handleConnection
  \/ serving /\ \E p \in connected : handleDisconnection(p)
  \/ serving /\ createWebRtcTransportRequest(MaxLifecycleTransports)
  \/ serving /\ \E t \in TransportIds : createWebRtcTransportResolved(t)
  \/ serving /\ produceRequest(MaxLifecycleProducers)
  \/ serving /\ \E x \in ProducerIds : produceResolved(x)
  \/ serving /\ \E x \in ProducerIds : produceRejected(x)
  \/ serving /\ \E x \in ProducerIds : rtpConsumeResolved(x)
  \/ serving /\ \E x \in ProducerIds : rtpConsumeRejected(x)

LifecycleSpec == Constructed /\ [][LifecycleNext]_vars

----------------------------------------------------------------------------
\* Properties

owner(x) == engineProducers[x].owner
live(x) == engineProducers[x].handle = "open"
assigned(x) == x \in DOMAIN producerAssignments
\* The producers whose transport index handleProduce has computed.
indexed(x) == engineProducers[x].stage \in {"bridge", "done"}

\* C1: with the sockets admitted in the order 1, 2, 3 and none removed, in every
\* interleaving of their produce calls every producer of socket 1 is given
\* transport index 0 and every producer of socket 2 index 1, the RTP consumer
\* and the assignment stored for it carry that index, and a producer of a later
\* socket gets no index, no RTP consumer and no assignment.
C1_DeterministicSlots ==
  \A x \in ProducerIds :
    /\ indexed(x) =>
         engineProducers[x].idx =
           IF owner(x) <= RtpTransportsPerKind THEN owner(x) - 1 ELSE -1
    /\ assigned(x) =>
         /\ owner(x) <= RtpTransportsPerKind
         /\ producerAssignments[x] = owner(x) - 1
    /\ \A i \in -1..MaxPeers : <<x, i>> \in rtpConsumers =>
         /\ i = owner(x) - 1
         /\ owner(x) <= RtpTransportsPerKind
         /\ assigned(x)

\* Sockets 1, 2 and 3 each have a finished produce: the first two are bridged
\* on index 0 and 1, the third is not bridged.
C1_Witness ==
  /\ peers = <<1, 2, 3>>
  /\ \E x, y, z \in ProducerIds :
       /\ owner(x) = 1 /\ assigned(x) /\ producerAssignments[x] = 0
       /\ owner(y) = 2 /\ assigned(y) /\ producerAssignments[y] = 1
       /\ owner(z) = 3 /\ engineProducers[z].stage = "done" /\ ~assigned(z)

\* C2: for each transport index and kind at most one live producer of that kind
\* is assigned to the index.
C2_OneProducerPerSlotAndKind ==
  \A x, y \in DOMAIN producerAssignments :
    ( /\ x # y
      /\ live(x) /\ live(y)
      /\ engineProducers[x].kind = engineProducers[y].kind )
    => producerAssignments[x] # producerAssignments[y]

\* C3: the producers a peer has in the registry all got the same transport
\* index (or all none), whatever joins and disconnections happened between the
\* produce calls that created them.
C3_SlotFixedAtAdmission ==
  \A p \in PeerIds : \A x, y \in producers[p] :
    engineProducers[x].idx = engineProducers[y].idx

C5_ProducerOwnerInRegistry ==
  \A p \in PeerIds : \A x \in producers[p] :
    /\ p \in Range(peers)
    /\ owner(x) = p

\* transport.produce() resolved after the owner was removed: the producer
\* exists and the registry does not record it.
C5_Witness ==
  \E x \in ProducerIds :
    /\ live(x)
    /\ engineProducers[x].stage = "done"
    /\ owner(x) \notin Range(peers)
    /\ \A p \in PeerIds : x \notin producers[p]

\* C6: when "new-producer" is emitted for a producer, the producer is in its
\* owner's producer table.
C6_BroadcastAfterRecorded ==
  [][\A x \in newProducerEmitted' \ newProducerEmitted :
       x \in producers'[owner(x)]]_vars

\* C7: no handle the engine returned is open outside the registry once the
\* handler that asked for it has finished.
C7_NoLeakedHandle ==
  /\ \A t \in TransportIds :
       engineTransports[t].state = "open" => t \in transports[engineTransports[t].owner]
  /\ \A x \in ProducerIds :
       (live(x) /\ engineProducers[x].stage = "done") => x \in producers[owner(x)]
  /\ \A c \in ConsumerIds :
       engineConsumers[c].state = "open" => c \in consumers[engineConsumers[c].owner]

\* C8: an add for a peer that is not in the registry fails visibly: the handler
\* does not go on as after a success (its request ends in the error reply).
C8_UnknownPeerReported ==
  [][/\ \A t \in TransportIds :
          (engineTransports[t].state = "pending" /\ engineTransports'[t].state = "open")
          => engineTransports[t].owner \in Range(peers)
     /\ \A x \in ProducerIds :
          (engineProducers[x].stage = "produce"
             /\ engineProducers'[x].stage \in {"bridge", "done"})
          => owner(x) \in Range(peers)
     /\ \A c \in ConsumerIds :
          (engineConsumers[c].state = "pending" /\ engineConsumers'[c].state = "open")
          => engineConsumers[c].owner \in Range(peers)]_vars

C10_RemovePeerIdempotent ==
  [][\A p \in PeerIds :
       (removeCalls[p] = 1 /\ removeCalls'[p] = 2)
       => UNCHANGED <<registryVars, engineVars>>]_vars

\* removePeer was called twice for a peer that had a transport, while another
\* peer is in the registry.
C10_Witness ==
  \E p \in PeerIds :
    /\ removeCalls[p] = 2
    /\ \E t \in TransportIds :
         engineTransports[t].owner = p /\ engineTransports[t].state = "closed"
    /\ peers # <<>>

\* C11: a call of addPeer for an id that is in the registry leaves the peer and
\* the transports, producers and consumers recorded for it as they were.
C11_DuplicateIdLeavesPeer ==
  [][\A p \in Range(peers) :
       (addCalls[p] = 1 /\ addCalls'[p] = 2)
       => UNCHANGED <<peers, transports, producers, consumers>>]_vars

\* C12: when an RTP consumer is created for a producer on a transport index,
\* no other live producer of the same kind is assigned to that index.
C12_SlotOccupiedRejected ==
  [][\A x \in ProducerIds : \A i \in 0..MaxPeerIndex :
       (<<x, i>> \in rtpConsumers' \ rtpConsumers)
       => ~\E y \in DOMAIN producerAssignments :
             /\ y # x
             /\ live(y)
             /\ engineProducers[y].kind = engineProducers[x].kind
             /\ producerAssignments[y] = i]_vars

\* C13: with every socket admitted before the first one leaves, socket 3 is
\* admitted when two peers are in the registry: each of its producers finishes
\* its produce request without an attempt to bridge it, is announced once
\* recorded, and never has an RTP consumer or an assignment.
C13_SaturatedPeerNotBridged ==
  \A x \in ProducerIds :
    owner(x) > RtpTransportsPerKind
    => /\ engineProducers[x].stage # "bridge"
       /\ ~assigned(x)
       /\ \A i \in 0..MaxPeerIndex : <<x, i>> \notin rtpConsumers
       /\ x \in producers[owner(x)] => x \in newProducerEmitted

\* C14: a consumer is paused when transport.consume() returns it; it stops
\* being paused only in the step that completes a resume request of its owner,
\* which is answered without error; once not paused it stays so; and a resume
\* request completing on a consumer that is not paused and that the worker
\* still has is answered without error and changes nothing else.
C14_PausedUntilOwnerResumes ==
  [][\A c \in ConsumerIds :
       LET con == engineConsumers[c]
           ownReply == [to |-> con.owner, error |-> "none"]
       IN /\ (con.state # "open" /\ engineConsumers'[c].state = "open")
               => engineConsumers'[c].paused
          /\ (con.paused /\ ~engineConsumers'[c].paused)
               => /\ con.state = "open"
                  /\ con.resuming # <<>>
                  /\ Head(con.resuming) = con.owner
                  /\ engineConsumers'[c].replies = Append(con.replies, ownReply)
          /\ ~con.paused => ~engineConsumers'[c].paused
          /\ ( /\ ~con.paused
               /\ consumerInWorker(c)
               /\ con.resuming # <<>>
               /\ engineConsumers'[c].resuming = Tail(con.resuming) )
               => /\ engineConsumers'[c] =
                       [con EXCEPT !.resuming = Tail(@), !.replies = Append(@, ownReply)]
                  /\ \A d \in ConsumerIds \ {c} : engineConsumers'[d] = engineConsumers[d]
                  /\ UNCHANGED <<registryVars, engineTransports, engineProducers,
                                 rtpConsumers>>]_vars

\* A consumer that its owner resumed twice: both requests were answered
\* without error and it is open and not paused.
C14_Witness ==
  \E c \in ConsumerIds :
    LET con == engineConsumers[c]
    IN /\ con.state = "open"
       /\ ~con.paused
       /\ con.replies = <<[to |-> con.owner, error |-> "none"],
                          [to |-> con.owner, error |-> "none"]>>

\* PeerManager.getProducer finds the producer in some peer's map.
recorded(x) == \E p \in Range(peers) : x \in producers[p]

\* C15: a consume request that names a producer id the registry does not hold
\* is answered with an error, at once ("Cannot consume") or when the engine
\* rejects the call, never with a consumer, and neither the request nor its
\* answer changes the registry.
C15_UnknownProducerRefused ==
  [][\A c \in ConsumerIds :
       LET con == engineConsumers[c]
           req == engineConsumers'[c]
       IN /\ (con.state = "none" /\ req.state # "none" /\ ~recorded(req.pid))
               => /\ \/ req.state = "refused"
                     \/ req.state = "pending" /\ orphanProducer(req.pid)
                  /\ UNCHANGED registryVars
          /\ (con.state = "pending" /\ orphanProducer(con.pid))
               => /\ req.state \in {"pending", "failed"}
                  /\ req.state = "failed" => UNCHANGED registryVars]_vars

\* A request on the requester's own transport was answered "Cannot consume":
\* it named a producer that was closed and dropped when its owner left.
C15_Witness ==
  \E c \in ConsumerIds :
    /\ engineConsumers[c].state = "refused"
    /\ engineConsumers[c].tid \in transports[engineConsumers[c].owner]
    /\ engineProducers[engineConsumers[c].pid].handle = "closed"
    /\ ~recorded(engineConsumers[c].pid)

\* The events of one sort in the sequence a step emitted.
eventsOf(evs, sort) == {i \in DOMAIN evs : evs[i].event = sort}

\* C16: the step that removes a peer emits, for each producer in the peer's
\* map, a "producer-closed" event with that producer id and the peer's id to
\* every socket that stays connected.
C16_ProducerClosedOnDisconnect ==
  [][\A p \in Range(peers) \ Range(peers') : \A x \in producers[p] :
       \A q \in connected' :
         \E i \in eventsOf(sent', "producer-closed") :
           /\ sent'[i].producerId = x
           /\ sent'[i].socketId = p
           /\ q \in sent'[i].to]_vars

\* C17: the step that completes a produce request with success emits one
\* "new-producer" event for the producer, carrying its owner's id, to the
\* sockets connected then other than the owner; no other step emits one.
C17_OneNewProducerToOthers ==
  [][\A x \in ProducerIds :
       LET succeeds == /\ engineProducers[x].stage # "done"
                       /\ engineProducers'[x].stage = "done"
           evs == {i \in eventsOf(sent', "new-producer") : sent'[i].producerId = x}
       IN /\ succeeds
               => /\ Cardinality(evs) = 1
                  /\ \A i \in evs :
                       /\ sent'[i].to = connected' \ {owner(x)}
                       /\ sent'[i].socketId = owner(x)
          /\ ~succeeds => evs = {}]_vars

\* A producer was announced to the two other sockets.
C17_Witness ==
  \E i \in eventsOf(sent, "new-producer") :
    /\ Cardinality(sent[i].to) = 2
    /\ engineProducers[sent[i].producerId].stage = "done"

\* The producers the registry records for peers other than socketId, each with
\* its owner.
producersOfOthers(socketId) ==
  {[producerId |-> x, socketId |-> owner(x)] :
     x \in {y \in ProducerIds : recorded(y) /\ owner(y) # socketId}}

\* C18: every "existingProducers" event lists exactly the producers the
\* registry then records for the peers other than the recipient, each with its
\* owner; the step that admits a socket sends the socket one, and the step
\* that completes a produce request of a connected peer sends that peer one
\* when the list is not empty.
C18_ExistingProducersOfOthers ==
  [][/\ \A i \in eventsOf(sent', "existingProducers") : \A q \in PeerIds :
          sent'[i].socketId = q
          => /\ sent'[i].producers = producersOfOthers(q)'
             /\ sent'[i].to \subseteq {q}
     /\ nConn' # nConn
          => \E i \in eventsOf(sent', "existingProducers") : sent'[i].to = {nConn'}
     /\ \A x \in ProducerIds :
          ( /\ engineProducers[x].stage # "done"
            /\ engineProducers'[x].stage = "done"
            /\ owner(x) \in connected'
            /\ producersOfOthers(owner(x))' # {} )
          => \E i \in eventsOf(sent', "existingProducers") : sent'[i].to = {owner(x)}]_vars

\* Socket 1 produced video and socket 2 is admitted: it is sent the list with
\* exactly that producer and socket 1.
C18_Witness ==
  /\ nConn = 2
  /\ \E x \in ProducerIds :
       /\ engineProducers[x].kind = "video"
       /\ sent = <<[event |-> "existingProducers", to |-> {2}, producerId |-> 0,
                    socketId |-> 2,
                    producers |-> {[producerId |-> x, socketId |-> 1]}]>>

\* The requests of a socket whose handler has started and has not finished:
\* it is waiting for the engine.
inFlight(socketId) ==
    Cardinality({t \in TransportIds :
                   /\ engineTransports[t].owner = socketId
                   /\ engineTransports[t].state = "pending"})
  + Cardinality({x \in ProducerIds :
                   /\ engineProducers[x].owner = socketId
                   /\ engineProducers[x].stage \in {"produce", "bridge"}})
  + Cardinality({c \in ConsumerIds :
                   /\ engineConsumers[c].owner = socketId
                   /\ engineConsumers[c].state = "pending"})
  + Cardinality({ci \in ConsumerIds \X (1..MaxResumes) :
                   /\ ci[2] \in DOMAIN engineConsumers[ci[1]].resuming
                   /\ engineConsumers[ci[1]].resuming[ci[2]] = socketId})

\* C19: the handler of a socket's request does not start while the handler of
\* an earlier request of that socket has not finished.
C19_RequestsSerialized == \A p \in PeerIds : inFlight(p) <= 1

\* The peer a request of which is answered with an error in this step: the
\* request is refused when it arrives or the engine rejects the call.
failedRequestOf(p) ==
  \/ \E t \in TransportIds :
       /\ engineTransports[t].owner = p
       /\ engineTransports[t].state = "pending"
       /\ engineTransports'[t].state = "failed"
  \/ \E x \in ProducerIds :
       /\ engineProducers'[x].owner = p
       /\ \/ engineProducers[x].stage = "none" /\ engineProducers'[x].stage = "refused"
          \/ engineProducers[x].stage = "produce" /\ engineProducers'[x].stage = "failed"
  \/ \E c \in ConsumerIds :
       /\ engineConsumers'[c].owner = p
       /\ \/ engineConsumers[c].state = "none" /\ engineConsumers'[c].state = "refused"
          \/ engineConsumers[c].state = "pending" /\ engineConsumers'[c].state = "failed"

answeredOnce(q, r, q2, r2) ==
  \/ q2 = q /\ r2 = r
  \/ r2 = r /\ \E p \in PeerIds : q2 = Append(q, p)
  \/ q2 = q /\ \E p \in PeerIds, e \in {"Transport not found", "Consumer not found"} :
                 r2 = Append(r, [to |-> p, error |-> e])
  \/ /\ q # <<>>
     /\ q2 = Tail(q)
     /\ \E e \in {"none", "engine"} : r2 = Append(r, [to |-> Head(q), error |-> e])

\* C21: the acknowledgement callback of a request is not called while its
\* handler waits for the engine and has been called exactly once when the
\* handler has finished, with the success payload if the handle was created and
\* with an error payload if the request was refused or the engine rejected the
\* call; a connect or resume request is answered once, to its requester, when
\* it is refused or when its engine call settles.
C21_ExactlyOneResponse ==
  /\ [](/\ \A t \in TransportIds :
            LET tr == engineTransports[t]
            IN /\ tr.state \in {"none", "pending"} => tr.acks = <<>>
               /\ tr.state \in {"open", "closed"} => tr.acks = <<"ok">>
               /\ tr.state = "failed" => tr.acks = <<"error">>
        /\ \A x \in ProducerIds :
            LET pr == engineProducers[x]
            IN /\ pr.stage \in {"none", "produce", "bridge"} => pr.acks = <<>>
               /\ pr.stage = "done" => pr.acks = <<"ok">>
               /\ pr.stage \in {"failed", "refused"} => pr.acks = <<"error">>
        /\ \A c \in ConsumerIds :
            LET con == engineConsumers[c]
            IN /\ con.state \in {"none", "pending"} => con.acks = <<>>
               /\ con.state \in {"open", "closed"} => con.acks = <<"ok">>
               /\ con.state \in {"failed", "refused"} => con.acks = <<"error">>)
  /\ [][/\ \A t \in TransportIds :
            answeredOnce(engineTransports[t].connecting, engineTransports[t].connectReplies,
                         engineTransports'[t].connecting, engineTransports'[t].connectReplies)
        /\ \A c \in ConsumerIds :
            answeredOnce(engineConsumers[c].resuming, engineConsumers[c].replies,
                         engineConsumers'[c].resuming, engineConsumers'[c].replies)]_vars

\* The engine rejected a connect request and a produce request: each was
\* answered once with an error, and the transport request with its payload.
C21_Witness ==
  \E t \in TransportIds : \E x \in ProducerIds :
    /\ engineTransports[t].acks = <<"ok">>
    /\ engineTransports[t].connecting = <<>>
    /\ engineTransports[t].connectReplies =
         <<[to |-> engineTransports[t].owner, error |-> "engine"]>>
    /\ engineProducers[x].stage = "failed"
    /\ engineProducers[x].acks = <<"error">>

\* A live producer of the kind is assigned to the transport index.
slotFilled(kind, transportIndex) ==
  \E x \in DOMAIN producerAssignments :
    /\ live(x)
    /\ engineProducers[x].kind = kind
    /\ producerAssignments[x] = transportIndex

bothSlotsFilled ==
  \A k \in Kinds : \A i \in 0..(RtpTransportsPerKind - 1) : slotFilled(k, i)

\* C22: no FFmpeg process runs while no RTP consumer has been created for any
\* producer; and when both transport indexes hold a live producer of each kind
\* (and the FFmpeg process has not ended by itself) the process runs and was
\* spawned exactly once.
C22_TranscoderStartsWhenBridged ==
  /\ rtpConsumers = {} => ~isRunning
  /\ (bothSlotsFilled /\ ffmpeg # "closed") => (isRunning /\ spawns = 1)

C24_TranscoderExitStaysLocal ==
  [][/\ (ffmpeg = "alive" /\ ffmpeg' = "closed")
          => /\ ~isRunning'
             /\ spawns' = spawns
             /\ UNCHANGED <<registryVars, engineVars, process>>
     /\ spawns' # spawns => process = "constructed"
     /\ ffmpeg = "closed" => ffmpeg' = "closed"]_vars

\* The FFmpeg process has ended while a live producer is bridged; the server
\* runs, the producer is recorded and assigned, and one process was spawned.
C24_Witness ==
  /\ process = "running"
  /\ ffmpeg = "closed"
  /\ spawns = 1
  /\ \E x \in DOMAIN producerAssignments :
       live(x) /\ recorded(x) /\ engineTransports[engineProducers[x].tid].state = "open"

\* C25: when the process has terminated after the worker's "died" event, every
\* peer was removed from the registry and the FFmpeg process was stopped.
C25_FatalFailureOrderlyShutdown ==
  process = "exited" => (peers = <<>> /\ ~isRunning)

\* C26: once the server has shut down on a signal (or on a failed start) no
\* plain RTP transport is open and no FFmpeg process runs; the step that shuts
\* it down is the one that closes them and kills the process.
C26_ShutdownClosesBridge ==
  /\ [](process = "stopped" => (rtpTransports = {} /\ ~isRunning))
  /\ [][(process # "stopped" /\ process' = "stopped")
          => /\ rtpTransports' = {}
             /\ ffmpeg' = (IF ffmpeg = "alive" THEN "killed" ELSE ffmpeg)
             /\ spawns' = spawns]_vars

\* The server shut down while a producer was bridged and FFmpeg ran: the
\* process was killed, the plain transports are closed and no peer is left.
C26_Witness ==
  /\ process = "stopped"
  /\ ffmpeg = "killed"
  /\ rtpTransports = {}
  /\ rtpConsumers # {}
  /\ peers = <<>>

\* C27: WebRTCServer.start leaves the two plain transports of each kind open,
\* and while the server runs (until the worker dies or the server shuts down)
\* no step opens or closes one: not a produce request, not a departure.
C27_RtpTransportsFixed ==
  /\ [](process = "running" => rtpTransports = AllRtpTransports)
  /\ [][/\ (process = "constructed" /\ process' = "running")
             => (rtpTransports = {} /\ rtpTransports' = AllRtpTransports)
        /\ (process = "running" /\ process' = "running")
             => rtpTransports' = rtpTransports]_vars

\* A peer produced, was bridged and has left, and the server runs: the four
\* plain transports are open.
C27_Witness ==
  /\ process = "running"
  /\ rtpTransports = AllRtpTransports
  /\ Cardinality(rtpTransports) = 2 * RtpTransportsPerKind
  /\ \E x \in ProducerIds : \E i \in 0..(RtpTransportsPerKind - 1) :
       /\ <<x, i>> \in rtpConsumers
       /\ engineProducers[x].handle = "closed"
       /\ owner(x) \notin Range(peers)

\* C28: a produce or consume request that names a transport id which is not in
\* the requester's own transport map is answered with an error at once: no
\* engine call is started for it and nothing but the record of the request
\* changes.  A connect request starts its engine call only on a transport of
\* the requester's own map, and otherwise is answered "Transport not found"
\* with nothing else changed.
C28_TransportLookupIsPeerScoped ==
  [][/\ \A x \in ProducerIds :
          LET req == engineProducers'[x]
          IN ( /\ engineProducers[x].stage = "none"
               /\ req.stage # "none"
               /\ req.tid \notin transports[req.owner] )
             => /\ req.stage = "refused"
                /\ req.handle = "none"
                /\ req.acks = <<"error">>
                /\ \A y \in ProducerIds \ {x} : engineProducers'[y] = engineProducers[y]
                /\ UNCHANGED <<registryVars, engineTransports, engineConsumers, rtpConsumers>>
     /\ \A c \in ConsumerIds :
          LET req == engineConsumers'[c]
          IN ( /\ engineConsumers[c].state = "none"
               /\ req.state # "none"
               /\ req.tid \notin transports[req.owner] )
             => /\ req.state = "refused"
                /\ req.acks = <<"error">>
                /\ \A d \in ConsumerIds \ {c} : engineConsumers'[d] = engineConsumers[d]
                /\ UNCHANGED <<registryVars, engineTransports, engineProducers, rtpConsumers>>
     /\ \A t \in TransportIds : \A p \in PeerIds :
          LET tr == engineTransports[t]
              tr2 == engineTransports'[t]
          IN /\ tr2.connecting = Append(tr.connecting, p) => t \in transports[p]
             /\ ( /\ tr2.connecting = tr.connecting
                  /\ Len(tr2.connectReplies) = Len(tr.connectReplies) + 1
                  /\ tr2.connectReplies[Len(tr2.connectReplies)].to = p )
                => /\ t \notin transports[p]
                   /\ tr2.connectReplies =
                        Append(tr.connectReplies, [to |-> p, error |-> "Transport not found"])
                   /\ \A u \in TransportIds \ {t} : engineTransports'[u] = engineTransports[u]
                   /\ UNCHANGED <<registryVars, engineProducers, engineConsumers,
                                  rtpConsumers>>]_vars

\* A connect request and a produce request each named an open transport of
\* the other peer and were refused.
C28_Witness ==
  \E t \in TransportIds : \E x \in ProducerIds :
    /\ engineTransports[t].state = "open"
    /\ t \in transports[engineTransports[t].owner]
    /\ \E i \in DOMAIN engineTransports[t].connectReplies :
         /\ engineTransports[t].connectReplies[i].error = "Transport not found"
         /\ engineTransports[t].connectReplies[i].to # engineTransports[t].owner
    /\ engineProducers[x].stage = "refused"
    /\ engineProducers[x].tid = t
    /\ engineProducers[x].owner # engineTransports[t].owner

\* C29: a resume request starts consumer.resume() only on a consumer of the
\* requester's own consumer map; a request naming any other consumer id (one
\* never created, one closed, one of another peer) is answered "Consumer not
\* found" in the same step, which changes no consumer's paused flag and
\* nothing else.
C29_ResumeLookupIsPeerScoped ==
  [][\A c \in ConsumerIds : \A p \in PeerIds :
       LET con == engineConsumers[c]
           con2 == engineConsumers'[c]
           notFound == [to |-> p, error |-> "Consumer not found"]
       IN /\ con2.resuming = Append(con.resuming, p) => c \in consumers[p]
          /\ ( /\ con2.resuming = con.resuming
               /\ Len(con2.replies) = Len(con.replies) + 1
               /\ con2.replies[Len(con2.replies)].to = p )
             => /\ c \notin consumers[p]
                /\ con2 = [con EXCEPT !.replies = Append(@, notFound)]
                /\ \A d \in ConsumerIds : engineConsumers'[d].paused = engineConsumers[d].paused
                /\ \A d \in ConsumerIds \ {c} : engineConsumers'[d] = engineConsumers[d]
                /\ UNCHANGED <<registryVars, engineTransports, engineProducers,
                               rtpConsumers>>]_vars

\* A peer asked to resume another peer's consumer, open and paused, and was
\* answered "Consumer not found"; the consumer is still paused.
C29_Witness ==
  \E c \in ConsumerIds :
    /\ engineConsumers[c].state = "open"
    /\ engineConsumers[c].paused
    /\ c \in consumers[engineConsumers[c].owner]
    /\ \E i \in DOMAIN engineConsumers[c].replies :
         /\ engineConsumers[c].replies[i].to # engineConsumers[c].owner
         /\ engineConsumers[c].replies[i].error = "Consumer not found"

\* C30: every producer created is on a transport that was asked for with
\* isSender true, and every consumer created is on a transport that was asked
\* for with isSender false.
C30_RoleEnforced ==
  /\ \A x \in ProducerIds :
       engineProducers[x].handle # "none"
         => engineTransports[engineProducers[x].tid].isSender
  /\ \A c \in ConsumerIds :
       engineConsumers[c].state \in {"open", "closed"}
         => ~engineTransports[engineConsumers[c].tid].isSender

\* C31: a producer in the assignment table has one transport index, the one
\* of the only RTP consumer created for it, and while the producer stays in
\* the table no step changes its index, whatever happens to the position of
\* its owner among the peers.
C31_AssignmentImmutable ==
  /\ [](\A x \in DOMAIN producerAssignments :
          \A pair \in rtpConsumers :
            pair[1] = x => pair[2] = producerAssignments[x])
  /\ [][\A x \in DOMAIN producerAssignments \cap DOMAIN producerAssignments' :
          producerAssignments'[x] = producerAssignments[x]]_vars

\* An open producer keeps index 1 after the earlier peer has left and its
\* owner has become the first peer, while a later producer of the same owner
\* has index 0.
C31_Witness ==
  \E x, y \in DOMAIN producerAssignments :
    /\ live(x) /\ live(y)
    /\ owner(x) = owner(y)
    /\ indexOf(owner(x)) = 0
    /\ producerAssignments[x] = 1
    /\ producerAssignments[y] = 0

\* C32: a consumer in a peer's consumer map whose producer is closed (by the
\* departure of the producer's owner or by the close of its transport) is
\* eventually closed and in no peer's consumer map.
C32_ConsumersFollowProducer ==
  \A c \in ConsumerIds :
    ( /\ \E p \in Range(peers) : c \in consumers[p]
      /\ engineProducers[engineConsumers[c].pid].handle = "closed" )
    ~> ( /\ engineConsumers[c].state = "closed"
         /\ \A p \in PeerIds : c \notin consumers[p] )

\* The engine reported a transport closed, the producer on it was closed with
\* its owner still in the registry, and another peer's consumer of that
\* producer is closed and out of that peer's map, the peer being still there.
C32_Witness ==
  \E c \in ConsumerIds :
    LET x == engineConsumers[c].pid
    IN /\ engineConsumers[c].state = "closed"
       /\ engineConsumers[c].owner \in Range(peers)
       /\ c \notin consumers[engineConsumers[c].owner]
       /\ engineTransports[engineConsumers[c].tid].state = "open"
       /\ engineProducers[x].handle = "closed"
       /\ owner(x) \in Range(peers)
       /\ owner(x) # engineConsumers[c].owner

\* C33: the step in which a transport of a peer that stays in the registry is
\* closed removes the transport from the peer's transport map, closes every
\* producer the peer has on it, and removes each of them from the peer's
\* producer map and from the assignment table.
C33_TransportCloseCascade ==
  [][\A p \in Range(peers) \cap Range(peers') : \A t \in transports[p] :
       ( engineTransports[t].state = "open" /\ engineTransports'[t].state = "closed" )
         => /\ t \notin transports'[p]
            /\ \A x \in producers[p] :
                 engineProducers[x].tid = t
                   => /\ engineProducers'[x].handle = "closed"
                      /\ x \notin producers'[p]
                      /\ x \notin DOMAIN producerAssignments']_vars

\* The engine reported the transport of a bridged producer closed: the owner
\* is still in the registry, the transport and the producer are closed and out
\* of the owner's maps, and the producer has no assignment.
C33_Witness ==
  \E x \in ProducerIds :
    LET t == engineProducers[x].tid
    IN /\ owner(x) \in Range(peers)
       /\ engineProducers[x].handle = "closed"
       /\ engineTransports[t].state = "closed"
       /\ t \notin transports[owner(x)]
       /\ x \notin producers[owner(x)]
       /\ \E i \in 0..MaxPeerIndex : <<x, i>> \in rtpConsumers
       /\ ~assigned(x)

\* The transport, producer and consumer maps of a peer.
tablesOf(p) == <<transports[p], producers[p], consumers[p]>>

\* C34: every id in a peer's transport, producer or consumer map is the id of
\* a handle created by a request of that peer, so no id is in the maps of two
\* peers; and no step changes the maps of more than one peer.
C34_PeerScopedTables ==
  /\ [](\A p \in PeerIds :
          /\ \A t \in transports[p] : engineTransports[t].owner = p
          /\ \A x \in producers[p] : engineProducers[x].owner = p
          /\ \A c \in consumers[p] : engineConsumers[c].owner = p
          /\ \A q \in PeerIds \ {p} :
               /\ transports[p] \cap transports[q] = {}
               /\ producers[p] \cap producers[q] = {}
               /\ consumers[p] \cap consumers[q] = {})
  /\ [][\A p, q \in PeerIds :
          (tablesOf(p)' # tablesOf(p) /\ tablesOf(q)' # tablesOf(q)) => p = q]_vars

\* A peer that had a transport and a producer was removed while another peer,
\* still in the registry, keeps its transport and its consumer of that
\* producer in its maps.
C34_Witness ==
  \E p, q \in PeerIds : \E x \in ProducerIds : \E c \in ConsumerIds :
    /\ p \notin Range(peers) /\ removeCalls[p] > 0
    /\ q \in Range(peers)
    /\ owner(x) = p /\ engineProducers[x].handle = "closed"
    /\ engineConsumers[c].pid = x
    /\ c \in consumers[q]
    /\ engineConsumers[c].tid \in transports[q]

\* The stage of the shutdown a call of cleanup belongs to: the transcoder,
\* then the peers' and the engine's resources, then the servers.
teardownRank(call) ==
  CASE call = "ffmpegService.stop" -> 1
    [] call \in {"peerManager.removePeer", "mediasoupService.cleanup"} -> 2
    [] OTHER -> 3

\* C35: the calls cleanup has made are in the order transcoder, peers and
\* engine, servers; and when a server has been closed, FFmpeg was stopped,
\* the peers were removed and the engine's resources were closed before.
C35_TeardownOrder ==
  /\ \A i, j \in DOMAIN teardown :
       i < j => teardownRank(teardown[i]) <= teardownRank(teardown[j])
  /\ (\E k \in DOMAIN teardown : teardownRank(teardown[k]) = 3)
       => /\ \E i, j, m \in DOMAIN teardown :
               /\ teardown[i] = "ffmpegService.stop"
               /\ teardown[j] = "peerManager.removePeer"
               /\ teardown[m] = "mediasoupService.cleanup"
          /\ ~isRunning
          /\ peers = <<>>
          /\ rtpTransports = {}

\* A shutdown of a server that had a peer with an open transport: every call
\* of cleanup was made, FFmpeg was killed and the transport is closed.
C35_Witness ==
  /\ Len(teardown) = Len(cleanupCalls)
  /\ teardown[Len(teardown)] = "httpServer.close"
  /\ ffmpeg = "killed"
  /\ nConn > 0
  /\ \E t \in TransportIds : engineTransports[t].state = "closed"

\* C36: every producer id in the assignment table is in the producer map of a
\* peer in the registry.
C36_AssignedProducerRecorded ==
  \A x \in DOMAIN producerAssignments :
    \E p \in Range(peers) : x \in producers[p]

\* C37: every child of FFmpegService that is alive and was not sent a signal
\* is the one the handle holds; so at most one is alive at a time, and no
\* event of another child clears the handle of a running one.
C37_OneTranscoderAlive ==
  \A c \in DOMAIN children : children[c] = "alive" => handle = c

\* No request of any socket is on record.
noRequests ==
  /\ \A t \in TransportIds : engineTransports[t] = NoTransport
  /\ \A x \in ProducerIds : engineProducers[x] = NoProducer
  /\ \A c \in ConsumerIds : engineConsumers[c] = NoConsumer

\* C38: before start() has created the worker, the router and the four plain
\* transports no socket has been accepted and no request handled; a socket is
\* accepted, and a request taken, only by a server that start() has brought
\* up with all four transports; and a start whose initialize() fails ends in
\* cleanup with no socket ever accepted.
C38_NoAdmissionBeforeInit ==
  /\ [](process = "constructed" => (nConn = 0 /\ peers = <<>> /\ noRequests))
  /\ []((process = "stopped" /\ spawns = 0)
          => (nConn = 0 /\ noRequests /\ teardown = cleanupCalls))
  /\ [][(nConn' # nConn \/ engineVars' # engineVars)
          => /\ process \in {"running", "workerDied"}
             /\ process = "running" => rtpTransports = AllRtpTransports]_vars
  /\ [][(process = "constructed" /\ process' # "constructed")
          => \/ process' = "running" /\ rtpTransports' = AllRtpTransports
             \/ process' = "stopped" /\ rtpTransports' = {} /\ spawns' = 0]_vars

\* A socket was accepted and has an open transport on a running server whose
\* four plain transports exist.
C38_Witness ==
  /\ process = "running"
  /\ Cardinality(rtpTransports) = Cardinality(Kinds) * RtpTransportsPerKind
  /\ nConn > 0
  /\ \E p \in Range(peers) : \E t \in transports[p] : engineTransports[t].state = "open"

\* C39: the step that removes a peer p leaves every other peer where it is in
\* the registry, with its transport, producer and consumer maps and the
\* handles in them as they were, and leaves the assignment of every producer
\* of another peer as it was; and a consumer leaves the map of a peer that
\* stays only when its producer is closed.
C39_RemovePeerFrame ==
  [][/\ \A p \in Range(peers) \ Range(peers') :
          /\ peers' = SelectSeq(peers, LAMBDA q : q # p)
          /\ \A q \in PeerIds \ {p} :
               /\ transports'[q] = transports[q]
               /\ producers'[q] = producers[q]
               /\ consumers'[q] = consumers[q]
               /\ \A t \in transports[q] : engineTransports'[t] = engineTransports[t]
               /\ \A x \in producers[q] : engineProducers'[x] = engineProducers[x]
               /\ \A c \in consumers[q] : engineConsumers'[c] = engineConsumers[c]
          /\ \A x \in DOMAIN producerAssignments :
               owner(x) # p => /\ x \in DOMAIN producerAssignments'
                               /\ producerAssignments'[x] = producerAssignments[x]
     /\ \A q \in Range(peers) \cap Range(peers') :
          \A c \in consumers[q] \ consumers'[q] :
            engineProducers[engineConsumers[c].pid].handle = "closed"]_vars

\* A peer with a bridged producer was removed; another peer is still in the
\* registry with its transport, its own bridged producer, open and assigned,
\* and its consumer of the removed peer's producer still in its map.
C39_Witness ==
  \E c \in ConsumerIds :
    LET x == engineConsumers[c].pid
        q == engineConsumers[c].owner
    IN /\ engineConsumers[c].state = "open"
       /\ q \in Range(peers)
       /\ c \in consumers[q]
       /\ owner(x) \notin Range(peers) /\ removeCalls[owner(x)] > 0
       /\ engineProducers[x].handle = "closed"
       /\ \E y \in producers[q] :
            /\ live(y) /\ assigned(y)
            /\ engineProducers[y].tid \in transports[q]
====
